---- MODULE Spec2Model ----
(***************************************************************************)
(* Model of the qualified-extraction ingestion pipeline:                   *)
(*   collectors/base.py      make_hash, BaseCollector (copy_source_db,     *)
(*                           timestamp conversions, run ledger, run)       *)
(*   collectors/knowledgec.py, collectors/podcasts.py                      *)
(*   src/extraction/collectors/messages.py                                 *)
(*   schema.py               the unified database's tables                 *)
(*   extract.py              run_extraction (the batch loop)               *)
(*                                                                         *)
(* SQLite and Python values are dynamically typed, so every cell value is  *)
(* a tagged record [k, i, s]: NULL/None, an integer or a text.             *)
(***************************************************************************)
EXTENDS Integers, Sequences, FiniteSets, TLC

----------------------------------------------------------------------------
(* Values *)

\* An integer is hi * 10^9 + i: TLC's integers are 32 bits wide, Python's and
\* SQLite's are not.  hi is 0 for every integer of magnitude below 2 * 10^9;
\* otherwise hi and i have the same sign and |i| < 10^9.
LIMB == 1000000000

None == [k |-> "null", hi |-> 0, i |-> 0, s |-> ""]
I(n) == [k |-> "int", hi |-> 0, i |-> n, s |-> ""]
T(t) == [k |-> "text", hi |-> 0, i |-> 0, s |-> t]

\* The integer h * 10^9 + l, for |l| < 2 * 10^9, in the form above.
BigInt(h, l) ==
    LET c == l \div LIMB
        h1 == h + c
        l1 == l - c * LIMB
        h2 == IF h1 < 0 /\ l1 > 0 THEN h1 + 1 ELSE h1
        l2 == IF h1 < 0 /\ l1 > 0 THEN l1 - LIMB ELSE l1
    IN  IF h2 \in {-1, 0, 1}
        THEN I(h2 * LIMB + l2)
        ELSE [k |-> "int", hi |-> h2, i |-> l2, s |-> ""]

\* A float given in millionths (the only floats the collectors compute).
Millionths(n) == [k |-> "float", hi |-> 0, i |-> n, s |-> ""]

\* The outcome of an expression that raised (TypeError on a text operand).
Raised == [k |-> "raise", hi |-> 0, i |-> 0, s |-> "TypeError"]

\* Mutant: no value is taken for None.
NeverNone(v) == FALSE

IsNone(v) == v.k = "null"

\* Mutant: value < 0.
Negative(v) == v.hi < 0 \/ (v.hi = 0 /\ v.i < 0)

\* value <= 0, for an integer value
NonPositive(v) == v.hi < 0 \/ (v.hi = 0 /\ v.i <= 0)

\* Python truthiness of a value: None, 0 and '' are false.
Truthy(v) ==
    /\ v.k # "null"
    /\ (v.k \in {"int", "float"} => (v.hi # 0 \/ v.i # 0))
    /\ (v.k = "text" => v.s # "")

RECURSIVE Zeros(_)
Zeros(n) == IF n <= 0 THEN "" ELSE "0" \o Zeros(n - 1)

\* The nine decimal digits of 0 <= n < 10^9
Pad9(n) == Zeros(9 - Len(ToString(n))) \o ToString(n)

Abs(n) == IF n < 0 THEN -n ELSE n

\* Python's str() of an integer or a text.
Str(v) ==
    IF v.k = "text" THEN v.s
    ELSE IF v.hi = 0 THEN ToString(v.i)
    ELSE (IF v.hi < 0 THEN "-" ELSE "") \o ToString(Abs(v.hi)) \o Pad9(Abs(v.i))

----------------------------------------------------------------------------
(* collectors/base.py: constants, make_hash, timestamp conversions *)

APPLE_EPOCH_OFFSET == 978307200

NANOS_PER_SECOND == 1000000000

RECURSIVE JoinBar(_)
\* '|'.join(parts)
JoinBar(parts) ==
    IF Len(parts) = 0 THEN ""
    ELSE IF Len(parts) = 1 THEN parts[1]
    ELSE parts[1] \o "|" \o JoinBar(Tail(parts))

\* Mutant: parts = [str(arg) for arg in args], None becomes 'None'.
HashPartsStr(args) ==
    [n \in 1..Len(args) |-> IF IsNone(args[n]) THEN "None" ELSE Str(args[n])]

\* parts = [str(arg) if arg is not None else '' for arg in args]
HashParts(args) ==
    [n \in 1..Len(args) |-> IF IsNone(args[n]) THEN "" ELSE Str(args[n])]

\* hashlib.sha256(combined).hexdigest()[:32]: the digest is modelled as an
\* injective function of the digested string (no digest collisions), written
\* as the string itself behind a tag.
Sha256Prefix(combined) == "sha256:" \o combined

make_hash(args) == Sha256Prefix(JoinBar(HashParts(args)))

\* The number of characters of hashlib.sha256(...).hexdigest().
SHA256_HEX_LENGTH == 64

\* The stop of the slice [:32].
HASH_LENGTH == 32

\* len(s[:stop]) for a string of the given length.
SliceLength(length, stop) == IF stop < length THEN stop ELSE length

\* Mutant: the offset is not added.
apple_to_unix_no_offset(apple_timestamp) ==
    IF IsNone(apple_timestamp) THEN None
    ELSE IF apple_timestamp.k # "int" THEN Raised
    ELSE IF apple_timestamp.hi < 0
            \/ (apple_timestamp.hi = 0 /\ apple_timestamp.i <= 0) THEN None
    ELSE apple_timestamp

\* apple_timestamp <= 0 raises TypeError when the operand is a text.
apple_to_unix(apple_timestamp) ==
    IF IsNone(apple_timestamp) THEN None
    ELSE IF apple_timestamp.k # "int" THEN Raised
    ELSE IF NonPositive(apple_timestamp) THEN None
    ELSE BigInt(apple_timestamp.hi + (apple_timestamp.i \div LIMB),
                (apple_timestamp.i % LIMB) + APPLE_EPOCH_OFFSET)

\* apple_nano / 1_000_000_000 + APPLE_EPOCH_OFFSET is computed in IEEE-754
\* doubles: the quotient is rounded to 53 bits and so is the sum.  For an
\* input of `seconds` whole seconds, both roundings together reach the next
\* whole second exactly when the remaining nanoseconds are within this many
\* of 10^9.  The steps are where the quotient (2^22 .. 2^30) or the sum
\* (2^30 - 978307200 = 95434624, 2^31 - 978307200 = 1169176448) enters the
\* next binade.
RoundUpWindow(seconds) ==
    CASE seconds < 4194304 -> 59
      [] seconds < 16777216 -> 60
      [] seconds < 33554432 -> 61
      [] seconds < 67108864 -> 63
      [] seconds < 95434624 -> 67
      [] seconds < 134217728 -> 126
      [] seconds < 268435456 -> 134
      [] seconds < 536870912 -> 149
      [] seconds < 1073741824 -> 178
      [] seconds < 1169176448 -> 119
      [] OTHER -> 357

\* int(apple_nano / 1_000_000_000 + APPLE_EPOCH_OFFSET), apple_nano > 0
apple_nano_to_unix(apple_nano) ==
    IF IsNone(apple_nano) THEN None
    ELSE IF apple_nano.k # "int" THEN Raised
    ELSE IF NonPositive(apple_nano) THEN None
    ELSE LET seconds == apple_nano.hi + (apple_nano.i \div NANOS_PER_SECOND)
             nanos == apple_nano.i % NANOS_PER_SECOND
             up == IF nanos >= NANOS_PER_SECOND - RoundUpWindow(seconds)
                   THEN 1 ELSE 0
         IN  BigInt(0, seconds + up + APPLE_EPOCH_OFFSET)

\* CHROME_EPOCH_OFFSET = 11644473600 = 11644473 * 1000 + 600
CHROME_EPOCH_OFFSET_THOUSANDS == 11644473

CHROME_EPOCH_OFFSET_UNITS == 600

MICROS_PER_SECOND == 1000000

\* A result this model does not compute.
Unmodelled == [k |-> "unmodelled", hi |-> 0, i |-> 0, s |-> ""]

\* The integer thousands * 1000 + units, for thousands >= 0.
Seconds(thousands, units) ==
    BigInt(thousands \div MICROS_PER_SECOND,
           (thousands % MICROS_PER_SECOND) * 1000 + units)

\* int(chrome_timestamp / 1_000_000 - CHROME_EPOCH_OFFSET), with
\* chrome_timestamp = hi * 10^9 + i microseconds, that is hi * 1000 +
\* i div 10^6 seconds.  The quotient and the difference are IEEE-754 doubles.
\* From the Unix epoch (11644473600 * 10^6) to 2^34 * 10^6 microseconds (the
\* year 2145) the double quotient never reaches the next whole second and
\* the subtraction is exact, so the result is the whole seconds less the
\* offset.  Outside that range the roundings can move the result by one
\* second; the model does not compute those results.
chrome_to_unix(chrome_timestamp) ==
    IF IsNone(chrome_timestamp) THEN None
    ELSE IF chrome_timestamp.k # "int" THEN Raised
    ELSE IF NonPositive(chrome_timestamp) THEN None
    ELSE LET thousands == chrome_timestamp.hi - CHROME_EPOCH_OFFSET_THOUSANDS
             units == (chrome_timestamp.i \div MICROS_PER_SECOND)
                        - CHROME_EPOCH_OFFSET_UNITS
         IN  IF thousands < 0 \/ (thousands = 0 /\ units < 0)
                \/ chrome_timestamp.hi > 17179869
                \/ (chrome_timestamp.hi = 17179869
                        /\ chrome_timestamp.i \div MICROS_PER_SECOND >= 184)
             THEN Unmodelled
             ELSE Seconds(thousands, units)

----------------------------------------------------------------------------
(* schema.py: record tables, their NOT NULL columns, UNIQUE record_hash *)

Tables ==
    {"app_usage", "web_visits", "bluetooth_connections", "notifications",
     "messages", "chats", "podcast_episodes", "podcast_shows", "intents",
     "display_state"}

\* Columns declared NOT NULL besides record_hash (which is never None here).
NotNullColumns(table) ==
    CASE table = "app_usage" -> {"bundle_id", "start_time"}
      [] table = "web_visits" -> {"url", "visit_time"}
      [] table = "bluetooth_connections" -> {"start_time"}
      [] table = "notifications" -> {"bundle_id", "timestamp"}
      [] table = "intents" -> {"timestamp"}
      [] table = "display_state" -> {"start_time"}
      [] table = "messages" -> {"timestamp"}
      [] table = "podcast_shows" -> {"title"}
      [] OTHER -> {}

HasHash(rows, h) == \E n \in 1..Len(rows) : rows[n].record_hash = h

\* Would INSERT INTO table raise sqlite3.IntegrityError: record_hash UNIQUE,
\* or a NOT NULL column receiving NULL.
UniqueViolation(rows, row) == HasHash(rows, row.record_hash)

NotNullViolation(table, row) ==
    \E c \in NotNullColumns(table) : IsNone(row[c])

\* Mutant: a table without the UNIQUE constraint on record_hash.
IntegrityErrorNoUnique(rows, table, row) == NotNullViolation(table, row)

IntegrityError(rows, table, row) ==
    UniqueViolation(rows, row) \/ NotNullViolation(table, row)

----------------------------------------------------------------------------
(* The body of each sub-pass's row loop.  A source row is either skipped by a
   `continue`, raises, or reaches the INSERT with a candidate record. *)

Continue == [op |-> "continue"]
Raise == [op |-> "raise"]
Candidate(table, row) == [op |-> "insert", table |-> table, row |-> row]

\* Mutant: a lookup that falls back to the key.
DictGetOrKey(d, key) == IF key \in DOMAIN d THEN d[key] ELSE key

\* dict.get(key): None when the key is absent.
DictGet(d, key) == IF key \in DOMAIN d THEN d[key] ELSE None

\* Mutant: the duration is measured from 0 instead of from start_time.
duration_from_zero(start_time, end_time) ==
    IF Truthy(end_time) THEN I(end_time.i) ELSE None

\* duration = None; if end_time and start_time: duration = end_time - start_time
Duration(start_time, end_time) ==
    IF Truthy(end_time) /\ Truthy(start_time)
    THEN I(end_time.i - start_time.i) ELSE None

\* KnowledgeCCollector._extract_app_usage, one row
app_usage_row(row, device_map) ==
    LET start_time == apple_to_unix(row.start_date)
        end_time == apple_to_unix(row.end_date)
    IN  IF start_time = Raised \/ end_time = Raised THEN Raise
        ELSE IF IsNone(start_time) THEN Continue
        ELSE Candidate("app_usage",
                [record_hash |-> make_hash(<<row.bundle_id, start_time, row.device_id>>),
                 bundle_id |-> row.bundle_id,
                 start_time |-> start_time,
                 end_time |-> end_time,
                 duration_seconds |-> Duration(start_time, end_time),
                 device_id |-> row.device_id,
                 device_model |-> IF Truthy(row.device_id)
                                  THEN DictGet(device_map, row.device_id)
                                  ELSE None])

\* KnowledgeCCollector._extract_bluetooth, one row
bluetooth_row(row) ==
    LET start_time == apple_to_unix(row.start_date)
        end_time == apple_to_unix(row.end_date)
    IN  IF start_time = Raised \/ end_time = Raised THEN Raise
        ELSE IF IsNone(start_time) THEN Continue
        ELSE Candidate("bluetooth_connections",
                [record_hash |-> make_hash(<<row.address, start_time>>),
                 device_name |-> row.name,
                 device_address |-> row.address,
                 device_type |-> row.device_type,
                 product_id |-> row.product_id,
                 start_time |-> start_time,
                 end_time |-> end_time,
                 duration_seconds |-> Duration(start_time, end_time)])

\* app_bundle = bundle_id or event_type
OrElse(a, b) == IF Truthy(a) THEN a ELSE b

\* KnowledgeCCollector._extract_notifications, one row
notifications_row(row) ==
    LET timestamp == apple_to_unix(row.start_date)
        app_bundle == OrElse(row.bundle_id, row.event_type)
    IN  IF timestamp = Raised THEN Raise
        ELSE IF IsNone(timestamp) THEN Continue
        ELSE IF ~Truthy(app_bundle) \/ app_bundle \in {T("Receive"), T("Dismiss")}
             THEN Continue
        ELSE Candidate("notifications",
                [record_hash |-> make_hash(<<app_bundle, timestamp, row.event_type>>),
                 bundle_id |-> app_bundle,
                 event_type |-> row.event_type,
                 timestamp |-> timestamp])

\* KnowledgeCCollector._extract_intents, one row
intents_row(row) ==
    LET timestamp == apple_to_unix(row.start_date)
    IN  IF timestamp = Raised THEN Raise
        ELSE IF IsNone(timestamp) THEN Continue
        ELSE Candidate("intents",
                [record_hash |-> make_hash(<<row.intent_class, row.bundle_id, timestamp>>),
                 intent_class |-> row.intent_class,
                 intent_verb |-> row.intent_verb,
                 bundle_id |-> row.bundle_id,
                 timestamp |-> timestamp])

\* KnowledgeCCollector._extract_display_state, one row
display_state_row(row) ==
    LET start_time == apple_to_unix(row.start_date)
        end_time == apple_to_unix(row.end_date)
    IN  IF start_time = Raised \/ end_time = Raised THEN Raise
        ELSE IF IsNone(start_time) THEN Continue
        ELSE Candidate("display_state",
                [record_hash |-> make_hash(<<start_time, row.is_backlit>>),
                 is_backlit |-> row.is_backlit,
                 start_time |-> start_time,
                 end_time |-> end_time,
                 duration_seconds |-> Duration(start_time, end_time)])

----------------------------------------------------------------------------
(* collectors/podcasts.py and src/extraction/collectors/messages.py *)

\* A TEXT column stores the text form of the value bound to it.
AsText(v) == Str(v)

\* PodcastsCollector._extract_shows, one row
podcast_shows_row(row) ==
    LET subscribed_at == apple_to_unix(row.added_date)
    IN  IF ~Truthy(row.uuid) THEN Continue
        ELSE IF subscribed_at = Raised THEN Raise
        ELSE Candidate("podcast_shows",
                [record_hash |-> AsText(row.uuid),
                 title |-> row.title,
                 author |-> row.author,
                 feed_url |-> row.feed_url,
                 subscribed_at |-> subscribed_at,
                 episode_count |-> row.episode_count])

\* PodcastsCollector._extract_episodes, one row
podcast_episodes_row(row) ==
    LET last_played_at == apple_to_unix(row.last_played)
        published_at == apple_to_unix(row.pub_date)
    IN  IF ~Truthy(row.uuid) THEN Continue
        ELSE IF last_played_at = Raised \/ published_at = Raised THEN Raise
        ELSE Candidate("podcast_episodes",
                [record_hash |-> AsText(row.uuid),
                 episode_title |-> row.title,
                 show_title |-> row.show_title,
                 show_uuid |-> row.show_uuid,
                 duration_seconds |-> row.duration,
                 played_seconds |-> row.playhead,
                 play_count |-> row.play_count,
                 last_played_at |-> last_played_at,
                 published_at |-> published_at])

\* MessagesCollector._extract_chats, one row
chats_row(row) ==
    LET last_message_time == apple_nano_to_unix(row.last_msg)
    IN  IF ~Truthy(row.guid) THEN Continue
        ELSE IF last_message_time = Raised THEN Raise
        ELSE Candidate("chats",
                [record_hash |-> AsText(row.guid),
                 chat_identifier |-> row.identifier,
                 display_name |-> row.display_name,
                 participant_count |-> row.participants,
                 last_message_time |-> last_message_time])

\* MessagesCollector._extract_messages, one row
messages_row(row) ==
    LET timestamp == apple_nano_to_unix(row.date)
        read_time == apple_nano_to_unix(row.date_read)
        delivered_time == apple_nano_to_unix(row.date_delivered)
    IN  IF ~Truthy(row.guid) THEN Continue
        ELSE IF Raised \in {timestamp, read_time, delivered_time} THEN Raise
        ELSE IF IsNone(timestamp) THEN Continue
        ELSE Candidate("messages",
                [record_hash |-> AsText(row.guid),
                 text |-> row.text,
                 is_from_me |-> row.is_from_me,
                 timestamp |-> timestamp,
                 date_read |-> read_time,
                 date_delivered |-> delivered_time,
                 handle_id |-> row.handle_id,
                 chat_id |-> row.chat_guid,
                 service |-> row.service,
                 has_attachment |-> IF Truthy(row.attachment_count)
                                       /\ row.attachment_count.i > 0
                                    THEN I(1) ELSE I(0)])

\* TRANSITION_TYPES.get(transition & 0xFF, "other")
TRANSITION_TYPES ==
    <<"typed", "auto_bookmark", "auto_subframe", "manual_subframe",
      "generated", "auto_toplevel", "form_submit", "reload", "keyword",
      "keyword_generated">>

TransitionType(transition) ==
    LET low == transition.i % 256
    IN  IF low = 0 THEN T("link")
        ELSE IF low \in DOMAIN TRANSITION_TYPES THEN T(TRANSITION_TYPES[low])
        ELSE T("other")

\* ChromeCollector._extract_visits, one row
web_visits_row(row) ==
    LET timestamp == chrome_to_unix(row.visit_time)
    IN  IF timestamp = Raised THEN Raise
        ELSE IF IsNone(timestamp) THEN Continue
        ELSE IF Truthy(row.duration) /\ row.duration.k # "int" THEN Raise
        ELSE IF row.transition.k # "int" THEN Raise
        ELSE Candidate("web_visits",
                [record_hash |-> make_hash(<<row.url, row.visit_time, T("chrome")>>),
                 url |-> row.url,
                 title |-> row.title,
                 visit_time |-> timestamp,
                 visit_duration_seconds |->
                    IF Truthy(row.duration) /\ ~NonPositive(row.duration)
                    THEN Millionths(row.duration.i) ELSE None,
                 transition_type |-> TransitionType(row.transition),
                 browser |-> T("chrome")])

----------------------------------------------------------------------------
(* Collectors: extract.py COLLECTORS, each collector's name and sub-passes *)

COLLECTORS == {"knowledgeC", "messages", "chrome", "podcasts"}

\* The sub-passes extract() calls, in order, named by the table they fill.
SubPasses(name) ==
    CASE name = "knowledgeC" ->
            <<"app_usage", "bluetooth_connections", "notifications",
              "intents", "display_state">>
      [] name = "messages" -> <<"chats", "messages">>
      [] name = "chrome" -> <<"web_visits">>
      [] name = "podcasts" -> <<"podcast_shows", "podcast_episodes">>

\* The row loop's body of the sub-pass filling `table`.
ProcessRow(table, row, device_map) ==
    CASE table = "app_usage" -> app_usage_row(row, device_map)
      [] table = "bluetooth_connections" -> bluetooth_row(row)
      [] table = "notifications" -> notifications_row(row)
      [] table = "intents" -> intents_row(row)
      [] table = "display_state" -> display_state_row(row)
      [] table = "chats" -> chats_row(row)
      [] table = "messages" -> messages_row(row)
      [] table = "web_visits" -> web_visits_row(row)
      [] table = "podcast_shows" -> podcast_shows_row(row)
      [] table = "podcast_episodes" -> podcast_episodes_row(row)

----------------------------------------------------------------------------
(* Source snapshots: what the queries of each sub-pass return on the copied
   file, in the queries' ORDER BY order (NULL first, then numbers, then
   text), and the ZSYNCPEER device mapping. *)

AppRow(bundle_id, start_date, end_date, device_id) ==
    [bundle_id |-> bundle_id, start_date |-> start_date,
     end_date |-> end_date, device_id |-> device_id]

BluetoothRow(start_date, end_date, address) ==
    [start_date |-> start_date, end_date |-> end_date, name |-> T("pods"),
     address |-> address, device_type |-> None, product_id |-> I(8206)]

NotificationRow(event_type, start_date, bundle_id) ==
    [event_type |-> event_type, start_date |-> start_date,
     bundle_id |-> bundle_id]

IntentRow(start_date, intent_class, bundle_id) ==
    [start_date |-> start_date, intent_class |-> intent_class,
     intent_verb |-> T("play"), bundle_id |-> bundle_id]

DisplayRow(is_backlit, start_date, end_date) ==
    [is_backlit |-> is_backlit, start_date |-> start_date,
     end_date |-> end_date]

ShowRow(uuid, title) ==
    [uuid |-> uuid, title |-> title, author |-> None, feed_url |-> None,
     added_date |-> I(3), episode_count |-> I(1)]

EpisodeRow(uuid, play_count, last_played) ==
    [uuid |-> uuid, title |-> T("ep"), show_title |-> T("show"),
     show_uuid |-> T("s1"), duration |-> I(60), playhead |-> I(10),
     play_count |-> play_count, last_played |-> last_played,
     pub_date |-> I(2)]

ChatRow(guid, last_msg) ==
    [guid |-> guid, identifier |-> T("+1"), display_name |-> None,
     participants |-> I(1), last_msg |-> last_msg]

MessageRow(guid, date) ==
    [guid |-> guid, text |-> T("hi"), is_from_me |-> I(0), date |-> date,
     date_read |-> None, date_delivered |-> None, handle_id |-> T("+1"),
     chat_guid |-> T("c1"), service |-> T("iMessage"),
     attachment_count |-> I(0)]

VisitRow(url, visit_time, duration) ==
    [url |-> url, title |-> T("page"), visit_time |-> visit_time,
     duration |-> duration, transition |-> I(805306376)]

NoDevices == <<>>

Range(f) == {f[x] : x \in DOMAIN f}

EmptyRows(name) == [t \in Range(SubPasses(name)) |-> <<>>]

\* A snapshot of collector `name` holding the given rows, no others.
Snapshot(name, rows, devices) ==
    [tables |-> rows @@ EmptyRows(name), devices |-> devices]

KnowledgeCSnapshots ==
    { \* one in-progress app session (no end yet)
      Snapshot("knowledgeC",
        "app_usage" :> <<AppRow(T("app"), I(5), None, None)>>, NoDevices),
      \* the same session, now ended, next to a second one on a known device
      \* and a third on a device that has no ZSYNCPEER row
      Snapshot("knowledgeC",
        "app_usage" :> <<AppRow(T("app"), I(5), I(9), None),
                         AppRow(T("app"), I(7), I(9), T("d1")),
                         AppRow(T("app"), I(8), I(9), T("d2"))>>,
        T("d1") :> T("MacBookPro")),
      \* a row without start, a notification dated before the reference date,
      \* a placeholder notification, a real one, twice, and a notification
      \* without source whose event type is neither 'Receive' nor 'Dismiss'
      Snapshot("knowledgeC",
        ("app_usage" :> <<AppRow(T("app"), I(0), I(9), None)>>) @@
        ("notifications" :>
            <<NotificationRow(T("Receive"), I(-3), T("app")),
              NotificationRow(T("Receive"), I(5), None),
              NotificationRow(T("Receive"), I(5), T("app")),
              NotificationRow(T("Receive"), I(5), T("app")),
              NotificationRow(T("Orb"), I(6), None)>>), NoDevices),
      \* a bluetooth row without start date, and one whose start date is a
      \* text: the sub-pass raises after it stored a row, and after the
      \* app-usage sub-pass committed
      Snapshot("knowledgeC",
        ("app_usage" :> <<AppRow(T("app"), I(5), None, None)>>) @@
        ("bluetooth_connections" :>
            <<BluetoothRow(None, I(9), T("aa")),
              BluetoothRow(I(5), I(9), T("aa")),
              BluetoothRow(T("x"), None, T("aa"))>>) @@
        ("display_state" :> <<DisplayRow(I(1), I(5), None)>>), NoDevices),
      \* intents and display state, each with a row that has no usable start
      Snapshot("knowledgeC",
        ("intents" :> <<IntentRow(None, T("Play"), T("app")),
                        IntentRow(I(5), T("Play"), T("app"))>>) @@
        ("display_state" :> <<DisplayRow(I(1), I(0), I(4)),
                              DisplayRow(I(1), I(5), I(4))>>), NoDevices) }

PodcastsSnapshots ==
    { Snapshot("podcasts",
        ("podcast_shows" :> <<ShowRow(T("s1"), T("show"))>>) @@
        ("podcast_episodes" :> <<EpisodeRow(T("e1"), I(1), I(5))>>),
        NoDevices),
      \* the same episode played again, and a show without title
      Snapshot("podcasts",
        ("podcast_shows" :> <<ShowRow(T("s1"), T("show")),
                              ShowRow(T("s2"), None)>>) @@
        ("podcast_episodes" :> <<EpisodeRow(T("e1"), I(2), I(8))>>),
        NoDevices),
      \* an episode whose last-played date is a text
      Snapshot("podcasts",
        "podcast_episodes" :> <<EpisodeRow(T("e2"), I(1), T("x")),
                                EpisodeRow(T("e1"), I(1), I(5))>>,
        NoDevices) }

MessagesSnapshots ==
    { Snapshot("messages",
        ("chats" :> <<ChatRow(T("c1"), I(1500000000))>>) @@
        ("messages" :> <<MessageRow(T("m0"), I(0)),
                         MessageRow(T("m1"), I(1500000000))>>), NoDevices),
      Snapshot("messages",
        ("chats" :> <<ChatRow(None, None), ChatRow(T("c1"), I(2000000000))>>) @@
        ("messages" :> <<MessageRow(T("m1"), I(1500000000)),
                         MessageRow(T("m2"), I(2000000000))>>), NoDevices) }

ChromeSnapshots ==
    { Snapshot("chrome",
        "web_visits" :>
            <<VisitRow(T("http://a"), I(0), I(0)),
              VisitRow(T("http://a"), BigInt(13000000, 999999), I(2500000))>>,
        NoDevices),
      \* the same visit, and one of a second URL 1 microsecond later
      Snapshot("chrome",
        "web_visits" :>
            <<VisitRow(T("http://a"), BigInt(13000000, 999999), I(2500000)),
              VisitRow(T("http://b"), BigInt(13000000, 1000000), None)>>,
        NoDevices) }

\* The contents the source file of a collector may have when it is copied.
Snapshots(name) ==
    CASE name = "knowledgeC" -> KnowledgeCSnapshots
      [] name = "messages" -> MessagesSnapshots
      [] name = "chrome" -> ChromeSnapshots
      [] name = "podcasts" -> PodcastsSnapshots

----------------------------------------------------------------------------
(* State *)

MaxRuns == 2

VARIABLES
    source_db,        \* source_dbs/<name>.db: <<>> when absent, else <<snapshot>>
    unified_db,       \* unified.db as the open connection sees it
    disk,             \* unified.db as committed
    now,              \* the clock, in seconds
    collector_names,  \* run_extraction: collectors_to_run
    pos,              \* run_extraction: index of the loop's current name
    results,          \* run_extraction: results
    collector,        \* the collector instance: name, records_added, records_skipped
    pc,               \* where the process is
    run_id,           \* run(): run_id
    success,          \* run(): what extract() returned
    subpass,          \* extract(): index of the running sub-pass
    cursor,           \* sub-pass: index of the next source row
    source_db_path,   \* run(): what copy_source_db returned, "None" or "dest"
    run_snapshot,     \* history: the snapshot each ledger row's run copied
    entry_db,         \* history: unified.db when the current run() was entered
    batch_base,       \* history: the number of ledger rows when the batch began
    steps,            \* history: the steps of the current run() invocation
    attempted,        \* history: the names run() was invoked for in this batch
    acquired,         \* history: what the current run() copied from the source
    run_entry,        \* history: the record tables when each ledger row's run began
    fn,               \* the timestamp conversion that was called, "" before
    arg,              \* its argument
    ret,              \* what it returned
    hash_log          \* the calls of make_hash made so far, in order

vars ==
    <<source_db, unified_db, disk, now, collector_names, pos, results,
      collector, pc, run_id, success, subpass, cursor, source_db_path,
      run_snapshot, entry_db, batch_base, steps, attempted, acquired,
      run_entry, fn, arg, ret, hash_log>>

\* The state of a call of a timestamp conversion.
call_vars == <<fn, arg, ret, hash_log>>

EmptyDb == [runs |-> <<>>, tables |-> [t \in Tables |-> <<>>]]

NoCollector == [name |-> "", records_added |-> 0, records_skipped |-> 0]

InitPipeline ==
    /\ source_db = [n \in COLLECTORS |-> <<>>]
    /\ unified_db = EmptyDb
    /\ disk = EmptyDb
    /\ now = 1
    /\ collector_names = <<>>
    /\ pos = 0
    /\ results = <<>>
    /\ collector = NoCollector
    /\ pc = "idle"
    /\ run_id = 0
    /\ success = FALSE
    /\ subpass = 0
    /\ cursor = 0
    /\ source_db_path = "None"
    /\ run_snapshot = <<>>
    /\ entry_db = EmptyDb
    /\ batch_base = 0
    /\ steps = <<>>
    /\ attempted = <<>>
    /\ acquired = <<>>
    /\ run_entry = <<>>

Init ==
    /\ InitPipeline
    /\ fn = ""
    /\ arg = None
    /\ ret = None
    /\ hash_log = <<>>

\* The command lines extract.py is started with (no name: all collectors).
Requests ==
    { <<>>,
      <<"knowledgeC">>,
      <<"podcasts", "knowledgeC">>,
      <<"messages", "bogus", "chrome">>,
      <<"knowledgeC", "knowledgeC">> }

\* list(COLLECTORS.keys())
AllCollectors == <<"knowledgeC", "messages", "chrome", "podcasts">>

\* int(datetime.now().timestamp()): a reading later than the one before.
ClockReadings == {now + 1}

----------------------------------------------------------------------------
(* collectors/base.py: the run ledger, and run()'s decisions *)

\* Mutant: SELECT MIN(...).
SqlMin(values) ==
    LET present == {v \in values : ~IsNone(v)}
    IN  IF present = {} THEN None
        ELSE CHOOSE v \in present : \A w \in present : v.i <= w.i

\* SELECT MAX(...): NULL over no rows, NULLs are ignored.
SqlMax(values) ==
    LET present == {v \in values : ~IsNone(v)}
    IN  IF present = {} THEN None
        ELSE CHOOSE v \in present : \A w \in present : w.i <= v.i

\* SELECT MAX(completed_at) FROM extraction_runs WHERE source = ? AND
\* status = 'completed'; return result[0] if result and result[0] else None
get_last_extraction_time(db, name) ==
    LET selected == {n \in DOMAIN db.runs :
                        /\ db.runs[n].source = name
                        /\ db.runs[n].status = "completed"}
        result == SqlMax({db.runs[n].completed_at : n \in selected})
    IN  IF Truthy(result) THEN result ELSE None

\* INSERT INTO extraction_runs (started_at, source, status) VALUES (?, ?, 'running')
start_extraction_run(db, t, name) ==
    [db EXCEPT !.runs = Append(@,
        [id |-> Len(@) + 1, started_at |-> I(t), completed_at |-> None,
         source |-> name, records_added |-> 0, records_skipped |-> 0,
         status |-> "running"])]

\* Mutant: UPDATE ... WHERE source = (the source of row id).
complete_by_source(db, id, t, added, skipped, status) ==
    [db EXCEPT !.runs = [n \in DOMAIN @ |->
        IF @[n].source = @[id].source
        THEN [@[n] EXCEPT !.completed_at = I(t), !.records_added = added,
                          !.records_skipped = skipped, !.status = status]
        ELSE @[n]]]

\* Mutant: the UPDATE leaves completed_at out.
complete_without_time(db, id, t, added, skipped, status) ==
    [db EXCEPT !.runs = [n \in DOMAIN @ |->
        IF @[n].id = id
        THEN [@[n] EXCEPT !.records_added = added,
                          !.records_skipped = skipped, !.status = status]
        ELSE @[n]]]

\* Mutant: the UPDATE leaves status out.
complete_without_status(db, id, t, added, skipped, status) ==
    [db EXCEPT !.runs = [n \in DOMAIN @ |->
        IF @[n].id = id
        THEN [@[n] EXCEPT !.completed_at = I(t), !.records_added = added,
                          !.records_skipped = skipped]
        ELSE @[n]]]

\* UPDATE extraction_runs SET completed_at, records_added, records_skipped,
\* status WHERE id = run_id
complete_extraction_run(db, id, t, added, skipped, status) ==
    [db EXCEPT !.runs = [n \in DOMAIN @ |->
        IF @[n].id = id
        THEN [@[n] EXCEPT !.completed_at = I(t), !.records_added = added,
                          !.records_skipped = skipped, !.status = status]
        ELSE @[n]]]

\* Mutant: the two statuses swapped.
RunStatusSwapped(ok) == IF ok THEN "failed" ELSE "completed"

\* status = 'completed' if success else 'failed'
RunStatus(ok) == IF ok THEN "completed" ELSE "failed"

\* Mutant: the result of copy_source_db is not tested.
AfterCopyUnchecked(copied) == "start"

\* Mutant: extract() is called without start_extraction_run.
AfterCopyNoLedger(copied) == IF copied THEN "extract" ELSE "returned"

\* source_db_path = self.copy_source_db(); if not source_db_path: return False
AfterCopy(copied) == IF copied THEN "start" ELSE "returned"

\* Mutant: the handler re-raises without touching the ledger.
reraise_only(db, id, t, added, skipped) == db

\* Mutant: the handler first deletes the rows the run inserted.
undo_on_exception(db, id, t, added, skipped) ==
    complete_extraction_run([db EXCEPT !.tables = run_entry[id]], id, t,
                            added, skipped, "failed")

\* Mutant: the handler writes the ledger row without the run's count.
failed_uncounted(db, id, t, added, skipped) ==
    complete_extraction_run(db, id, t, 0, skipped, "failed")

\* except Exception as e: self.complete_extraction_run(run_id, 'failed'); raise
on_exception(db, id, t, added, skipped) ==
    complete_extraction_run(db, id, t, added, skipped, "failed")

\* Mutant: INSERT OR REPLACE (the row holding the hash is deleted, the new
\* one appended).
insert_or_replace(db, table, row) ==
    IF NotNullViolation(table, row) THEN db
    ELSE [db EXCEPT !.tables[table] =
            Append(SelectSeq(@, LAMBDA r : r.record_hash # row.record_hash),
                   row)]

\* Mutant: INSERT ... ON CONFLICT(record_hash) DO UPDATE (upsert in place).
insert_or_update(db, table, row) ==
    IF NotNullViolation(table, row) THEN db
    ELSE IF HasHash(db.tables[table], row.record_hash)
    THEN [db EXCEPT !.tables[table] = [n \in DOMAIN @ |->
            IF @[n].record_hash = row.record_hash THEN row ELSE @[n]]]
    ELSE [db EXCEPT !.tables[table] = Append(@, row)]

\* Mutant: the INSERT succeeds whatever the table holds.
insert_unchecked(db, table, row) ==
    [db EXCEPT !.tables[table] = Append(@, row)]

\* The database after unified_db.execute("INSERT INTO table ... VALUES ..."):
\* unchanged when the statement raised sqlite3.IntegrityError.
insert_into(db, table, row) ==
    IF IntegrityError(db.tables[table], table, row) THEN db
    ELSE [db EXCEPT !.tables[table] = Append(@, row)]

\* Mutant: the INSERT is not wrapped in try / except sqlite3.IntegrityError.
AfterInsertUncaught(integrity_error) ==
    IF integrity_error THEN "except" ELSE "extract"

\* try: INSERT ...; records_added += 1
\* except sqlite3.IntegrityError: records_skipped += 1
\* Either way the loop goes on with the next source row.
AfterInsert(integrity_error) == "extract"

\* Mutant: except sqlite3.IntegrityError: pass
CountInsertedOnly(c, integrity_error) ==
    IF integrity_error THEN c ELSE [c EXCEPT !.records_added = @ + 1]

\* self.records_added += 1 after the INSERT, or
\* except sqlite3.IntegrityError: self.records_skipped += 1
CountInsert(c, integrity_error) ==
    IF integrity_error THEN [c EXCEPT !.records_skipped = @ + 1]
    ELSE [c EXCEPT !.records_added = @ + 1]

\* One sub-pass from source row n on, no statement failing: the loop over
\* cursor.fetchall() to its end (or to the row whose processing raises).
RECURSIVE run_sub_pass(_, _, _, _, _)
run_sub_pass(db, table, rows, device_map, n) ==
    IF n > Len(rows) THEN db
    ELSE LET res == ProcessRow(table, rows[n], device_map)
         IN  IF res.op = "raise" THEN db
             ELSE run_sub_pass(
                    IF res.op = "insert"
                    THEN insert_into(db, res.table, res.row) ELSE db,
                    table, rows, device_map, n + 1)

\* extract() from sub-pass k on, no statement failing.
RECURSIVE extract_from(_, _, _, _)
extract_from(db, name, snapshot, k) ==
    IF k > Len(SubPasses(name)) THEN db
    ELSE extract_from(
            run_sub_pass(db, SubPasses(name)[k],
                         snapshot.tables[SubPasses(name)[k]],
                         snapshot.devices, 1),
            name, snapshot, k + 1)

\* The record tables after one uninterrupted extract() of collector `name`
\* over `snapshot`, started with the record tables `tables`.
SingleRun(tables, name, snapshot) ==
    extract_from([runs |-> <<>>, tables |-> tables], name, snapshot, 1).tables

\* Mutant: an exception of run() ends the loop.
AbortOnError(p, outcome) ==
    IF outcome = "raised" THEN Len(collector_names) + 1 ELSE p + 1

\* run_extraction's loop goes on to the next name whether run() returned or
\* raised (try ... except Exception inside the loop body).
AfterRun(p, outcome) == p + 1

\* The rows the running sub-pass's query returns; none when the local file
\* is missing (sqlite3.connect then opens an empty database).
SourceRows(name, table) ==
    IF source_db[name] = <<>> THEN <<>> ELSE source_db[name][1].tables[table]

DeviceMap(name) ==
    IF source_db[name] = <<>> THEN NoDevices ELSE source_db[name][1].devices

\* Records a step of the current run() invocation once.
Mark(step) ==
    IF steps # <<>> /\ steps[Len(steps)] = step THEN steps
    ELSE Append(steps, step)

----------------------------------------------------------------------------
(* extract.py: run_extraction *)

\* get_unified_db() and the first lines of run_extraction
RunExtraction ==
    /\ pc = "idle"
    /\ \E names \in Requests :
          collector_names' = IF names = <<>> THEN AllCollectors ELSE names
    /\ pos' = 1
    /\ results' = <<>>
    /\ attempted' = <<>>
    /\ unified_db' = disk
    /\ batch_base' = Len(disk.runs)
    /\ pc' = "loop"
    /\ UNCHANGED <<source_db, disk, now, collector, run_id, success, subpass,
                   cursor, source_db_path, run_snapshot, entry_db, steps,
                   acquired, run_entry, call_vars>>

\* if name not in COLLECTORS: ... continue
SkipUnknown ==
    /\ pc = "loop"
    /\ pos <= Len(collector_names)
    /\ collector_names[pos] \notin COLLECTORS
    /\ pos' = pos + 1
    /\ UNCHANGED <<source_db, unified_db, disk, now, collector_names,
                   results, collector, pc, run_id, success, subpass, cursor,
                   source_db_path, run_snapshot, entry_db, batch_base, steps,
                   attempted, acquired, run_entry, call_vars>>

\* collector = collector_class(PROJECT_DIR, conn); collector.run() is entered
CreateCollector ==
    /\ pc = "loop"
    /\ pos <= Len(collector_names)
    /\ collector_names[pos] \in COLLECTORS
    /\ collector' = [name |-> collector_names[pos], records_added |-> 0,
                     records_skipped |-> 0]
    /\ attempted' = Append(attempted, collector_names[pos])
    /\ steps' = <<>>
    /\ source_db_path' = "None"
    /\ run_id' = 0
    /\ success' = FALSE
    /\ subpass' = 1
    /\ cursor' = 1
    /\ entry_db' = unified_db
    /\ pc' = "copy"
    /\ acquired' = <<>>
    /\ UNCHANGED <<source_db, unified_db, disk, now, collector_names, pos,
                   results, run_snapshot, batch_base, run_entry, call_vars>>

\* results[name] = {...} after run() returned, or after it raised
RecordResult ==
    /\ pc \in {"returned", "raised"}
    /\ results' =
          (collector.name :>
              IF pc = "returned"
              THEN [success |-> success, added |-> collector.records_added,
                    skipped |-> collector.records_skipped]
              ELSE [success |-> FALSE, error |-> "TypeError"]) @@ results
    /\ pos' = AfterRun(pos, pc)
    /\ pc' = "loop"
    /\ entry_db' = EmptyDb
    /\ acquired' = <<>>
    /\ UNCHANGED <<source_db, unified_db, disk, now, collector_names,
                   collector, run_id, success, subpass, cursor,
                   source_db_path, run_snapshot, batch_base, steps,
                   attempted, run_entry, call_vars>>

\* conn.close(); return results.  The process ends.
CloseBatch ==
    /\ pc = "loop"
    /\ pos > Len(collector_names)
    /\ unified_db' = disk
    /\ pc' = "idle"
    /\ pos' = 0
    /\ collector_names' = <<>>
    /\ results' = <<>>
    /\ attempted' = <<>>
    /\ collector' = NoCollector
    /\ run_id' = 0
    /\ success' = FALSE
    /\ subpass' = 0
    /\ cursor' = 0
    /\ steps' = <<>>
    /\ source_db_path' = "None"
    /\ entry_db' = EmptyDb
    /\ batch_base' = 0
    /\ acquired' = <<>>
    /\ UNCHANGED <<source_db, disk, now, run_snapshot, run_entry, call_vars>>

\* The process is interrupted (KeyboardInterrupt is no Exception, a kill, a
\* power loss): what the connection had not committed is rolled back.
Crash ==
    /\ pc \in {"extract", "complete", "except"}
    /\ unified_db' = disk
    /\ pc' = "idle"
    /\ pos' = 0
    /\ collector_names' = <<>>
    /\ results' = <<>>
    /\ attempted' = <<>>
    /\ collector' = NoCollector
    /\ run_id' = 0
    /\ success' = FALSE
    /\ subpass' = 0
    /\ cursor' = 0
    /\ steps' = <<>>
    /\ source_db_path' = "None"
    /\ entry_db' = EmptyDb
    /\ batch_base' = 0
    /\ acquired' = <<>>
    /\ UNCHANGED <<source_db, disk, now, run_snapshot, run_entry, call_vars>>

----------------------------------------------------------------------------
(* collectors/base.py: copy_source_db and run() *)

\* How the copy can end: no candidate path exists; the old local copy could
\* not be deleted; the old copy was deleted (or there was none) and copy2
\* failed; the copy succeeded.
CopyOutcomes == {"not_found", "unlink_failed", "copy_failed", "copied"}

\* Mutant: an existing local copy is kept and used (no unlink, no overwrite).
copy_keep_existing(file, outcome, snapshot) ==
    IF file # <<>> THEN file
    ELSE IF outcome = "copied" THEN <<snapshot>> ELSE file

\* The local file source_dbs/<name>.db after copy_source_db.
copy_source_db(file, outcome, snapshot) ==
    CASE outcome = "copied" -> <<snapshot>>
      [] outcome = "copy_failed" -> <<>>
      [] OTHER -> file

CopySourceDb ==
    /\ pc = "copy"
    /\ \E outcome \in CopyOutcomes, snapshot \in Snapshots(collector.name) :
          /\ outcome = "copied" => Len(disk.runs) < MaxRuns
          /\ outcome = "unlink_failed" => source_db[collector.name] # <<>>
          /\ source_db' = [source_db EXCEPT ![collector.name] =
                               copy_source_db(@, outcome, snapshot)]
          /\ source_db_path' = IF outcome = "copied" THEN "dest" ELSE "None"
          /\ acquired' = IF outcome = "copied" THEN <<snapshot>> ELSE <<>>
          /\ pc' = AfterCopy(outcome = "copied")
    /\ steps' = Mark("AcquireSnapshot")
    /\ UNCHANGED <<unified_db, disk, now, collector_names, pos, results,
                   collector, run_id, success, subpass, cursor, run_snapshot,
                   entry_db, batch_base, attempted, run_entry, call_vars>>

\* run_id = self.start_extraction_run()   (INSERT, commit, lastrowid)
StartExtractionRun ==
    /\ pc = "start"
    /\ \E t \in ClockReadings :
          /\ now' = t
          /\ unified_db' = start_extraction_run(unified_db, t, collector.name)
    /\ disk' = unified_db'
    /\ run_id' = Len(unified_db'.runs)
    /\ run_snapshot' = Append(run_snapshot, source_db[collector.name])
    /\ steps' = Mark("RunLedgerStart")
    /\ pc' = "extract"
    /\ run_entry' = Append(run_entry, unified_db.tables)
    /\ UNCHANGED <<source_db, collector_names, pos, results, collector,
                   success, subpass, cursor, source_db_path, entry_db,
                   batch_base, attempted, acquired, call_vars>>

CurrentTable == SubPasses(collector.name)[subpass]

\* One iteration of the running sub-pass's `for row in cursor` loop.
ExtractRow ==
    /\ pc = "extract"
    /\ \/ source_db[collector.name] = <<>>
       \/ cursor <= Len(SourceRows(collector.name, CurrentTable))
    /\ steps' = Mark("Extract")
    /\ IF source_db[collector.name] = <<>>
       THEN \* the query raises sqlite3.OperationalError: no such table
            /\ pc' = "except"
            /\ UNCHANGED <<unified_db, collector, cursor>>
       ELSE LET res == ProcessRow(CurrentTable,
                          SourceRows(collector.name, CurrentTable)[cursor],
                          DeviceMap(collector.name))
            IN  CASE res.op = "continue" ->
                        /\ cursor' = cursor + 1
                        /\ UNCHANGED <<unified_db, collector, pc>>
                  [] res.op = "raise" ->
                        /\ pc' = "except"
                        /\ UNCHANGED <<unified_db, collector, cursor>>
                  [] res.op = "insert" ->
                        /\ cursor' = cursor + 1
                        /\ pc' = AfterInsert(
                                    IntegrityError(unified_db.tables[res.table],
                                                   res.table, res.row))
                        /\ unified_db' =
                                insert_into(unified_db, res.table, res.row)
                        /\ collector' =
                             CountInsert(collector,
                                 IntegrityError(unified_db.tables[res.table],
                                                res.table, res.row))
    /\ UNCHANGED <<source_db, disk, now, collector_names, pos, results,
                   run_id, success, subpass, source_db_path, run_snapshot,
                   entry_db, batch_base, attempted, acquired, run_entry,
                   call_vars>>

\* The loop ended: self.unified_db.commit(); the next sub-pass starts, or
\* extract() returns True.
SubPassCommit ==
    /\ pc = "extract"
    /\ source_db[collector.name] # <<>>
    /\ cursor > Len(SourceRows(collector.name, CurrentTable))
    /\ disk' = unified_db
    /\ steps' = Mark("Extract")
    /\ IF subpass < Len(SubPasses(collector.name))
       THEN /\ subpass' = subpass + 1
            /\ cursor' = 1
            /\ UNCHANGED <<pc, success>>
       ELSE /\ success' = TRUE
            /\ pc' = "complete"
            /\ UNCHANGED <<subpass, cursor>>
    /\ UNCHANGED <<source_db, unified_db, now, collector_names, pos, results,
                   collector, run_id, source_db_path, run_snapshot, entry_db,
                   batch_base, attempted, acquired, run_entry, call_vars>>

\* status = 'completed' if success else 'failed';
\* self.complete_extraction_run(run_id, status); return success
CompleteExtractionRun ==
    /\ pc = "complete"
    /\ \E t \in ClockReadings :
          /\ now' = t
          /\ unified_db' = complete_extraction_run(unified_db, run_id, t,
                               collector.records_added,
                               collector.records_skipped, RunStatus(success))
    /\ disk' = unified_db'
    /\ steps' = Mark("RunLedgerComplete")
    /\ pc' = "returned"
    /\ UNCHANGED <<source_db, collector_names, pos, results, collector,
                   run_id, success, subpass, cursor, source_db_path,
                   run_snapshot, entry_db, batch_base, attempted, acquired,
                   run_entry, call_vars>>

\* except Exception: self.complete_extraction_run(run_id, 'failed'); raise
HandleException ==
    /\ pc = "except"
    /\ \E t \in ClockReadings :
          /\ now' = t
          /\ unified_db' = on_exception(unified_db, run_id, t,
                               collector.records_added,
                               collector.records_skipped)
    /\ disk' = unified_db'
    /\ steps' = Mark("RunLedgerComplete")
    /\ pc' = "raised"
    /\ UNCHANGED <<source_db, collector_names, pos, results, collector,
                   run_id, success, subpass, cursor, source_db_path,
                   run_snapshot, entry_db, batch_base, attempted, acquired,
                   run_entry, call_vars>>

Next ==
    \/ RunExtraction
    \/ SkipUnknown
    \/ CreateCollector
    \/ CopySourceDb
    \/ StartExtractionRun
    \/ ExtractRow
    \/ SubPassCommit
    \/ CompleteExtractionRun
    \/ HandleException
    \/ RecordResult
    \/ CloseBatch

Spec == Init /\ [][Next]_vars

\* The pipeline with interruptions of the process.
NextCrash == Next \/ Crash

SpecCrash == Init /\ [][NextCrash]_vars

\* A statement of the running sub-pass raises an exception other than
\* sqlite3.IntegrityError (sqlite3.OperationalError: disk I/O error, database
\* is locked, ...): the sub-pass's handler does not catch it, so it leaves
\* extract() and reaches run()'s except Exception.
ExtractFault ==
    /\ pc = "extract"
    /\ pc' = "except"
    /\ steps' = Mark("Extract")
    /\ UNCHANGED <<source_db, unified_db, disk, now, collector_names, pos,
                   results, collector, run_id, success, subpass, cursor,
                   source_db_path, run_snapshot, entry_db, batch_base,
                   attempted, acquired, run_entry, call_vars>>

\* The pipeline with transient failures of sub-pass statements.
NextFault == Next \/ ExtractFault

SpecFault == Init /\ [][NextFault]_vars

\* run() entered again on the collector instance whose run() has returned or
\* raised: the locals of run() are fresh, the instance keeps its fields, and
\* the counters are assigned in __init__ only.
RunAgain ==
    /\ pc \in {"returned", "raised"}
    /\ steps' = <<>>
    /\ source_db_path' = "None"
    /\ run_id' = 0
    /\ success' = FALSE
    /\ subpass' = 1
    /\ cursor' = 1
    /\ entry_db' = unified_db
    /\ pc' = "copy"
    /\ acquired' = <<>>
    /\ UNCHANGED <<source_db, unified_db, disk, now, collector_names, pos,
                   results, collector, run_snapshot, batch_base, attempted,
                   run_entry, call_vars>>

\* The pipeline, and callers that run a collector instance more than once.
NextReuse == Next \/ RunAgain

SpecReuse == Init /\ [][NextReuse]_vars

----------------------------------------------------------------------------
(* collectors/base.py: calls of the timestamp conversions on their own *)

\* The small arguments are -MaxSmall .. MaxSmall; the large ones lie up to
\* MaxSmall units on either side of the values where the results change.
MaxSmall == 5

pipeline_vars ==
    <<source_db, unified_db, disk, now, collector_names, pos, results,
      collector, pc, run_id, success, subpass, cursor, source_db_path,
      run_snapshot, entry_db, batch_base, steps, attempted, acquired,
      run_entry>>

\* Seconds, nanoseconds and microseconds around zero.
SmallInputs == {I(n) : n \in -MaxSmall..MaxSmall}

\* Apple nanosecond dates just before and at a whole second: in the first
\* and second second after the reference date, and in 2023.
NanoInputs ==
    {BigInt(h, NANOS_PER_SECOND - d) :
        h \in {0, 1, 699999999},
        d \in (1..MaxSmall) \cup {59, 60, 178, 179, NANOS_PER_SECOND}}

\* Chrome microsecond dates at the Unix epoch and in 2012, on whole seconds
\* and one microsecond before them.
ChromeInputs ==
    {BigInt(h, 600000000 + d * MICROS_PER_SECOND - e) :
        h \in {CHROME_EPOCH_OFFSET_THOUSANDS, 13000000},
        d \in 0..MaxSmall, e \in {0, 1}}

TimestampInputs ==
    {None, T("x")} \cup SmallInputs \cup NanoInputs \cup ChromeInputs

InitCall ==
    /\ InitPipeline
    /\ fn = ""
    /\ arg \in TimestampInputs
    /\ ret = None
    /\ hash_log = <<>>

CallAppleToUnix ==
    /\ fn = ""
    /\ fn' = "apple_to_unix"
    /\ ret' = apple_to_unix(arg)
    /\ UNCHANGED <<arg, hash_log, pipeline_vars>>

CallAppleNanoToUnix ==
    /\ fn = ""
    /\ fn' = "apple_nano_to_unix"
    /\ ret' = apple_nano_to_unix(arg)
    /\ UNCHANGED <<arg, hash_log, pipeline_vars>>

CallChromeToUnix ==
    /\ fn = ""
    /\ fn' = "chrome_to_unix"
    /\ ret' = chrome_to_unix(arg)
    /\ UNCHANGED <<arg, hash_log, pipeline_vars>>

NextCall == CallAppleToUnix \/ CallAppleNanoToUnix \/ CallChromeToUnix

SpecCall == InitCall /\ [][NextCall]_vars

----------------------------------------------------------------------------
(* collectors/base.py: get_last_extraction_time asked between the pipeline's
   steps.  The process has one thread: while the query runs nothing else
   does. *)

\* A collector of some source asks for its last successful extraction, on
\* the connection the pipeline writes through.
CallGetLastExtractionTime ==
    /\ fn = ""
    /\ \E name \in COLLECTORS :
          /\ fn' = "get_last_extraction_time"
          /\ arg' = T(name)
          /\ ret' = get_last_extraction_time(unified_db, name)
    /\ UNCHANGED <<hash_log, pipeline_vars>>

\* The caller has the answer.
ReturnGetLastExtractionTime ==
    /\ fn = "get_last_extraction_time"
    /\ fn' = ""
    /\ arg' = None
    /\ ret' = None
    /\ UNCHANGED <<hash_log, pipeline_vars>>

NextQuery ==
    \/ fn = "" /\ Next
    \/ CallGetLastExtractionTime
    \/ ReturnGetLastExtractionTime

SpecQuery == Init /\ [][NextQuery]_vars

----------------------------------------------------------------------------
(* collectors/base.py: calls of make_hash while the pipeline runs *)

\* The number of calls of make_hash that are recorded.
MaxHashCalls == 2

\* Argument lists that differ in one position only, which holds None, the
\* empty string, or a text.
HashInputs ==
    { <<T("app"), None, I(5)>>, <<T("app"), T(""), I(5)>>,
      <<T("app"), T("d1"), I(5)>> }

HashCall(args, out) ==
    [args |-> args, out |-> out,
     length |-> SliceLength(SHA256_HEX_LENGTH, HASH_LENGTH)]

\* Mutant: the digest also covers how many ledger rows the store holds.
CallMakeHashSalted ==
    /\ Len(hash_log) < MaxHashCalls
    /\ \E args \in HashInputs :
          hash_log' = Append(hash_log,
                HashCall(args, Sha256Prefix(JoinBar(HashParts(args))
                                   \o ToString(Len(unified_db.runs)))))
    /\ UNCHANGED <<fn, arg, ret, pipeline_vars>>

\* make_hash(*args) is called and returns.
CallMakeHash ==
    /\ Len(hash_log) < MaxHashCalls
    /\ \E args \in HashInputs :
          hash_log' = Append(hash_log, HashCall(args, make_hash(args)))
    /\ UNCHANGED <<fn, arg, ret, pipeline_vars>>

NextHash == Next \/ CallMakeHash

SpecHash == Init /\ [][NextHash]_vars

----------------------------------------------------------------------------
(* python-cli/stat-page.py: get_bluetooth_data.merge_intervals.  An interval
   is a tuple <<start, end>> of Unix seconds. *)

\* Python's order of two tuples (start, end): by start, then by end.
TupleLess(a, b) == a[1] < b[1] \/ (a[1] = b[1] /\ a[2] < b[2])

RECURSIVE Insert(_, _)
\* The sorted list with one more interval.
Insert(interval, sorted_intervals) ==
    IF sorted_intervals = <<>> THEN <<interval>>
    ELSE IF TupleLess(sorted_intervals[1], interval)
         THEN <<sorted_intervals[1]>> \o Insert(interval, Tail(sorted_intervals))
         ELSE <<interval>> \o sorted_intervals

RECURSIVE Sorted(_)
\* sorted(intervals)
Sorted(intervals) ==
    IF intervals = <<>> THEN <<>>
    ELSE Insert(intervals[1], Sorted(Tail(intervals)))

\* max(a, b)
Max(a, b) == IF a >= b THEN a ELSE b

\* Mutant: only a start strictly inside the last merged interval extends it.
StrictlyInside(start, merged_end) == start < merged_end

\* if start <= merged[-1][1]
Overlapping(start, merged_end) == start <= merged_end

RECURSIVE MergeLoop(_, _)
\* for start, end in sorted_intervals[1:]: extend merged[-1] or append
MergeLoop(merged, rest) ==
    IF rest = <<>> THEN merged
    ELSE LET start == rest[1][1]
             end == rest[1][2]
             last == merged[Len(merged)]
         IN  IF Overlapping(start, last[2])
             THEN MergeLoop([merged EXCEPT ![Len(merged)] =
                                <<last[1], Max(last[2], end)>>], Tail(rest))
             ELSE MergeLoop(Append(merged, <<start, end>>), Tail(rest))

merge_intervals(intervals) ==
    IF intervals = <<>> THEN <<>>
    ELSE LET sorted_intervals == Sorted(intervals)
         IN  MergeLoop(<<sorted_intervals[1]>>, Tail(sorted_intervals))

----------------------------------------------------------------------------
(* python-cli/stat-page.py: calls of merge_intervals on one device's list *)

\* The number of intervals one device has.
MaxIntervals == 3

\* The instants an interval starts or ends at.
MergeInstants == {10, 15, 20, 25, 30, 40}

\* if end_ts > start_ts: the intervals that reach a device's list
ValidIntervals ==
    {interval \in MergeInstants \X MergeInstants : interval[2] > interval[1]}

\* ORDER BY device_name, start_time: a device's list is in order of start.
InStartOrder(intervals) ==
    \A n \in 1..(Len(intervals) - 1) : intervals[n][1] <= intervals[n + 1][1]

IntervalLists ==
    UNION {{intervals \in [1..n -> ValidIntervals] : InStartOrder(intervals)} :
            n \in 0..MaxIntervals}

InitMerge ==
    /\ InitPipeline
    /\ fn = ""
    /\ arg \in IntervalLists
    /\ ret = None
    /\ hash_log = <<>>

CallMergeIntervals ==
    /\ fn = ""
    /\ fn' = "merge_intervals"
    /\ ret' = merge_intervals(arg)
    /\ UNCHANGED <<arg, hash_log, pipeline_vars>>

NextMerge == CallMergeIntervals

SpecMerge == InitMerge /\ [][NextMerge]_vars

----------------------------------------------------------------------------
(* python-cli/stat-page.py: get_bluetooth_data.  datetime.fromtimestamp gives
   the local wall-clock reading of an instant, without zone: it is modelled as
   the number of seconds the wall clock shows since 1970-01-01T00:00.  The
   machine's time zone is part of the environment: an offset from UTC that
   changes once, at `transition`, or never. *)

\* timedelta(days=1), in seconds
SECONDS_PER_DAY == 86400

\* UTC; a zone one hour ahead of UTC until 1970-01-02T01:00Z, when clocks go
\* back one hour; and a zone on UTC until then, when clocks go forward.
Zones ==
    { [name |-> "UTC", transition |-> 0, before |-> 0, after |-> 0],
      [name |-> "clocks go back", transition |-> 90000, before |-> 3600,
       after |-> 0],
      [name |-> "clocks go forward", transition |-> 90000, before |-> 0,
       after |-> 3600] }

\* datetime.fromtimestamp(ts)
fromtimestamp(zone, ts) ==
    ts + (IF ts < zone.transition THEN zone.before ELSE zone.after)

\* dt.date(), as the number of the day
date(dt) == dt \div SECONDS_PER_DAY

\* datetime.combine(d, datetime.min.time())
DayStart(d) == d * SECONDS_PER_DAY

\* WHERE start_time IS NOT NULL AND device_name IS NOT NULL AND end_time IS
\* NOT NULL, then `if end_ts > start_ts`: the intervals of one device, in the
\* order of the rows.
RECURSIVE device_intervals(_, _)
device_intervals(rows, device) ==
    IF rows = <<>> THEN <<>>
    ELSE LET row == rows[1]
             rest == device_intervals(Tail(rows), device)
         IN  IF /\ ~IsNone(row.start_time) /\ ~IsNone(row.device_name)
                /\ ~IsNone(row.end_time)
                /\ row.device_name = device
                /\ row.end_time.i > row.start_time.i
             THEN <<<<row.start_time.i, row.end_time.i>>>> \o rest
             ELSE rest

\* What one day receives from one merged interval.
DayShare(day, seconds, connections) ==
    [date |-> day, total_time |-> seconds, connections |-> connections]

RECURSIVE SplitLoop(_, _, _, _, _)
\* while current_date <= end_date: ...
SplitLoop(current_date, current_dt, start_date, end_date, end_dt) ==
    IF current_date > end_date THEN <<>>
    ELSE LET next_day_start == DayStart(current_date + 1)
             day_seconds ==
                IF current_date = end_date
                THEN end_dt - DayStart(current_date)
                ELSE next_day_start - current_dt
             share ==
                IF day_seconds > 0
                THEN <<DayShare(current_date, day_seconds,
                                IF current_date = start_date THEN 1 ELSE 0)>>
                ELSE <<>>
         IN  share \o SplitLoop(current_date + 1, next_day_start, start_date,
                                end_date, end_dt)

\* The body of `for start_ts, end_ts in intervals`.
SplitInterval(zone, start_ts, end_ts) ==
    LET start_dt == fromtimestamp(zone, start_ts)
        end_dt == fromtimestamp(zone, end_ts)
        start_date == date(start_dt)
        end_date == date(end_dt)
    IN  IF start_date = end_date
        THEN <<DayShare(start_date, end_ts - start_ts, 1)>>
        ELSE SplitLoop(start_date, start_dt, start_date, end_date, end_dt)

RECURSIVE SplitAll(_, _)
SplitAll(zone, intervals) ==
    IF intervals = <<>> THEN <<>>
    ELSE SplitInterval(zone, intervals[1][1], intervals[1][2])
            \o SplitAll(zone, Tail(intervals))

RECURSIVE SumOf(_, _)
\* The sum of a field over a sequence of records.
SumOf(shares, field) ==
    IF shares = <<>> THEN 0
    ELSE shares[1][field] + SumOf(Tail(shares), field)

\* The device names of the rows, in Python's order of strings.
DeviceNames == <<"ears", "pods">>

\* daily_data[(date, device)] for one device, days ascending.
RECURSIVE DeviceDays(_, _, _)
DeviceDays(device, shares, days) ==
    IF days = {} THEN <<>>
    ELSE LET day == CHOOSE d \in days : \A e \in days : d <= e
             of_day == SelectSeq(shares, LAMBDA share : share.date = day)
         IN  <<[date |-> day, device |-> device,
                total_time |-> SumOf(of_day, "total_time"),
                connections |-> SumOf(of_day, "connections")]>>
             \o DeviceDays(device, shares, days \ {day})

\* The emitted tuples of one device.
DeviceResult(rows, zone, device) ==
    LET shares == SplitAll(zone,
                      merge_intervals(device_intervals(rows, T(device))))
    IN  DeviceDays(device, shares,
                   {shares[n].date : n \in DOMAIN shares})

RECURSIVE InsertTuple(_, _)
\* sorted(daily_data.items()): by date, then by device.
InsertTuple(tuple, sorted_tuples) ==
    IF sorted_tuples = <<>> THEN <<tuple>>
    ELSE IF sorted_tuples[1].date <= tuple.date
         THEN <<sorted_tuples[1]>> \o InsertTuple(tuple, Tail(sorted_tuples))
         ELSE <<tuple>> \o sorted_tuples

RECURSIVE InsertTuples(_, _)
InsertTuples(tuples, sorted_tuples) ==
    IF tuples = <<>> THEN sorted_tuples
    ELSE InsertTuples(Tail(tuples), InsertTuple(tuples[1], sorted_tuples))

RECURSIVE ResultFrom(_, _, _)
ResultFrom(rows, zone, n) ==
    IF n > Len(DeviceNames) THEN <<>>
    ELSE InsertTuples(ResultFrom(rows, zone, n + 1),
                      DeviceResult(rows, zone, DeviceNames[n]))

get_bluetooth_data(rows, zone) == ResultFrom(rows, zone, 1)

----------------------------------------------------------------------------
(* python-cli/stat-page.py: calls of get_bluetooth_data *)

\* The number of bluetooth_connections rows in the store.
MaxRows == 2

\* Noon and 23:00 of 1970-01-01, noon of 01-02, 23:30 of 01-02, midnight
\* and noon of 01-03, in UTC.
ConnectionInstants == {43200, 82800, 129600, 171000, 172800, 216000}

ConnectionRows ==
    [device_name : {T(DeviceNames[n]) : n \in DOMAIN DeviceNames},
     start_time : {I(t) : t \in ConnectionInstants},
     end_time : {I(t) : t \in ConnectionInstants} \cup {None}]

\* ORDER BY device_name, start_time
InQueryOrder(rows) ==
    \A n \in 1..(Len(rows) - 1) :
        \/ rows[n].device_name.s = DeviceNames[1]
              /\ rows[n + 1].device_name.s = DeviceNames[2]
        \/ /\ rows[n].device_name = rows[n + 1].device_name
           /\ rows[n].start_time.i <= rows[n + 1].start_time.i

ConnectionTables ==
    UNION {{rows \in [1..n -> ConnectionRows] : InQueryOrder(rows)} :
            n \in 0..MaxRows}

InitBluetooth ==
    /\ InitPipeline
    /\ fn = ""
    /\ arg \in [rows : ConnectionTables, zone : Zones]
    /\ ret = None
    /\ hash_log = <<>>

CallGetBluetoothData ==
    /\ fn = ""
    /\ fn' = "get_bluetooth_data"
    /\ ret' = get_bluetooth_data(arg.rows, arg.zone)
    /\ UNCHANGED <<arg, hash_log, pipeline_vars>>

NextBluetooth == CallGetBluetoothData

SpecBluetooth == InitBluetooth /\ [][NextBluetooth]_vars

----------------------------------------------------------------------------
(* Claims *)

Terminal(run) == run.status \in {"completed", "failed"}

\* Ledger rows i < j of two finished runs of one source over the same snapshot.
SameSnapshotRuns(i, j) ==
    /\ i < j
    /\ disk.runs[i].source = disk.runs[j].source
    /\ run_snapshot[i] = run_snapshot[j]
    /\ Terminal(disk.runs[i])
    /\ Terminal(disk.runs[j])

C1_Counts ==
    \A i, j \in DOMAIN disk.runs :
        SameSnapshotRuns(i, j) =>
            /\ disk.runs[j].records_added = 0
            /\ disk.runs[j].records_skipped =
                  disk.runs[i].records_added + disk.runs[i].records_skipped

\* The running run extracts a snapshot that a finished run of the same source
\* extracted before.
C1_Rerun ==
    /\ pc = "extract"
    /\ \E i \in 1..(run_id - 1) :
          /\ disk.runs[i].source = collector.name
          /\ run_snapshot[i] = run_snapshot[run_id]
          /\ Terminal(disk.runs[i])

\* C1 (idempotency): when a source is run again over the snapshot a finished
\* run of it already extracted, the later run inserts no record into any
\* table, its ledger row has records_added = 0, and its records_skipped equals
\* the number of candidates of the earlier run (added + skipped).
C1_Idempotency ==
    /\ []C1_Counts
    /\ [][C1_Rerun => unified_db'.tables = unified_db.tables]_vars

\* The spec's end-to-end scenario: one app-usage row, empty store, two runs.
C1_Witness ==
    /\ Len(disk.runs) = 2
    /\ SameSnapshotRuns(1, 2)
    /\ disk.runs[1].source = "knowledgeC"
    /\ run_snapshot[1] =
          <<Snapshot("knowledgeC",
              "app_usage" :> <<AppRow(T("app"), I(5), None, None)>>,
              NoDevices)>>
    /\ disk.runs[1].records_added = 1
    /\ disk.runs[2].records_added = 0
    /\ disk.runs[2].records_skipped = 1
    /\ Len(disk.tables["app_usage"]) = 1

NoDuplicateHash(db) ==
    \A t \in Tables : \A m, n \in DOMAIN db.tables[t] :
        m # n => db.tables[t][m].record_hash # db.tables[t][n].record_hash

\* The running sub-pass is about to process a source row.
AtRow ==
    /\ pc = "extract"
    /\ source_db[collector.name] # <<>>
    /\ cursor <= Len(SourceRows(collector.name, CurrentTable))

PendingRow ==
    ProcessRow(CurrentTable, SourceRows(collector.name, CurrentTable)[cursor],
               DeviceMap(collector.name))

\* The next statement is an INSERT whose record_hash the table already holds.
C2_Collision ==
    /\ AtRow
    /\ PendingRow.op = "insert"
    /\ HasHash(unified_db.tables[PendingRow.table],
               PendingRow.row.record_hash)

\* C2: no two rows of a table share a record_hash, in the connection's view
\* and on disk; an INSERT whose record_hash is present leaves every table as
\* it was (skip, never overwrite).
C2_UniqueHashSkip ==
    /\ [](NoDuplicateHash(unified_db) /\ NoDuplicateHash(disk))
    /\ [][C2_Collision => unified_db'.tables = unified_db.tables]_vars

\* A colliding candidate that differs from the stored row has been skipped.
C2_Witness ==
    /\ AtRow
    /\ cursor > 1
    /\ collector.records_skipped > 0
    /\ LET before == ProcessRow(CurrentTable,
                        SourceRows(collector.name, CurrentTable)[cursor - 1],
                        DeviceMap(collector.name))
       IN  /\ before.op = "insert"
           /\ \E n \in DOMAIN unified_db.tables[before.table] :
                 /\ unified_db.tables[before.table][n].record_hash =
                        before.row.record_hash
                 /\ unified_db.tables[before.table][n] # before.row

IsPrefix(a, b) ==
    /\ Len(a) <= Len(b)
    /\ \A n \in DOMAIN a : a[n] = b[n]

\* C3: a stored row is never modified or deleted: at every step each table,
\* as the connection sees it and as committed, keeps its rows as they are and
\* only grows at the end.
C3_AppendOnly ==
    [][\A t \in Tables :
          /\ IsPrefix(unified_db.tables[t], unified_db'.tables[t])
          /\ IsPrefix(disk.tables[t], disk'.tables[t])]_vars

\* Run j completed over a snapshot holding, for table t, a row with the dedup
\* key of a stored row and other content; the stored row is as it was.
ChangedCandidate(j, t) ==
    LET snap == run_snapshot[j][1]
    IN  /\ disk.runs[j].status = "completed"
        /\ t \in DOMAIN snap.tables
        /\ \E n \in DOMAIN snap.tables[t] :
              LET res == ProcessRow(t, snap.tables[t][n], snap.devices)
              IN  /\ res.op = "insert"
                  /\ \E m \in DOMAIN disk.tables[t] :
                        /\ disk.tables[t][m].record_hash = res.row.record_hash
                        /\ disk.tables[t][m] # res.row

\* An app-usage session whose end_time was absent and is now set was
\* extracted again by a completed run; the stored row still has no end_time.
C3_Witness ==
    \E j \in DOMAIN disk.runs :
        /\ ChangedCandidate(j, "app_usage")
        /\ IsNone(disk.tables["app_usage"][1].end_time)
        /\ \E n \in DOMAIN run_snapshot[j][1].tables["app_usage"] :
              ~IsNone(run_snapshot[j][1].tables["app_usage"][n].end_date)

\* The same for a podcast episode whose play_count grew.
C3_WitnessEpisode ==
    \E j \in DOMAIN disk.runs : ChangedCandidate(j, "podcast_episodes")

\* The ledger row of the current run() invocation, once it has one.
HasRun == run_id \in DOMAIN disk.runs

\* C4: when extract() raised, the run's ledger row is 'failed' (committed) by
\* the time run() raises to its caller; whenever run() has returned or raised,
\* the ledger row it created is not 'running'.
C4_NeverLeftRunning ==
    /\ pc = "raised" =>
          /\ HasRun
          /\ disk.runs[run_id].status = "failed"
          /\ unified_db.runs[run_id].status = "failed"
    /\ (pc \in {"returned", "raised"} /\ run_id # 0) =>
          /\ HasRun
          /\ disk.runs[run_id].status # "running"

\* extract() raised after inserting a record, and run() has re-raised.
C4_Witness ==
    /\ pc = "raised"
    /\ HasRun
    /\ disk.runs[run_id].records_added > 0

\* C5: every ledger row with status 'failed' or 'completed' has a non-null
\* completed_at, in the connection's view and on disk.
C5_TerminalHasCompletedAt ==
    \A db \in {unified_db, disk} : \A n \in DOMAIN db.runs :
        Terminal(db.runs[n]) => ~IsNone(db.runs[n].completed_at)

\* The ledger holds a failed and a completed run.
C5_Witness ==
    /\ \E n \in DOMAIN disk.runs : disk.runs[n].status = "failed"
    /\ \E n \in DOMAIN disk.runs : disk.runs[n].status = "completed"

StepOrder ==
    <<"AcquireSnapshot", "RunLedgerStart", "Extract", "RunLedgerComplete">>

\* A ledger row is inserted only after the copy succeeded.
C6_LedgerInsert ==
    Len(unified_db'.runs) > Len(unified_db.runs) =>
        /\ source_db_path = "dest"
        /\ source_db[collector.name] # <<>>
        /\ steps = <<"AcquireSnapshot">>

\* A row leaves 'running' only by the completion update of its own run, after
\* extract() returned ("complete") or raised ("except").
C6_Completion ==
    \A n \in DOMAIN unified_db.runs :
        (unified_db.runs[n].status = "running"
            /\ unified_db'.runs[n].status # "running") =>
                /\ pc \in {"complete", "except"}
                /\ n = run_id
                /\ steps = SubSeq(StepOrder, 1, 3)

\* While extract() runs, the run's ledger row exists with status 'running'.
C6_ExtractAfterStart ==
    pc = "extract" =>
        /\ HasRun
        /\ disk.runs[run_id].status = "running"
        /\ source_db_path = "dest"

\* C6: the steps of one run() invocation occur only in the order
\* AcquireSnapshot, RunLedgerStart, Extract, RunLedgerComplete: the ledger row
\* is inserted only after the copy succeeded, extract() runs only while the
\* row exists with status 'running', and the completion update happens only
\* after extract() returned or raised.
C6_StepOrder ==
    /\ [](IsPrefix(steps, StepOrder) /\ C6_ExtractAfterStart)
    /\ [][C6_LedgerInsert /\ C6_Completion]_vars

\* A run went through all four steps and inserted records.
C6_Witness ==
    /\ steps = StepOrder
    /\ pc = "returned"
    /\ collector.records_added > 0

\* The current run() invocation is past a failed copy_source_db.
AcquisitionFailed ==
    /\ pc \in {"start", "extract", "complete", "except", "returned", "raised"}
    /\ source_db_path = "None"

\* C7: after a failed acquisition run() returns False at once: no ledger row,
\* no extract(), and unified.db (tables and ledger, as seen and as committed)
\* is what it was when run() was entered.
C7_AcquisitionFailure ==
    AcquisitionFailed =>
        /\ pc = "returned"
        /\ success = FALSE
        /\ run_id = 0
        /\ steps = <<"AcquireSnapshot">>
        /\ unified_db = entry_db
        /\ disk = entry_db

\* The copy failed for a source that an earlier run had copied and extracted:
\* the old local copy is gone and the store holds records.
C7_Witness ==
    /\ pc = "returned"
    /\ source_db_path = "None"
    /\ source_db[collector.name] = <<>>
    /\ \E n \in DOMAIN disk.runs :
          /\ disk.runs[n].source = collector.name
          /\ disk.runs[n].records_added > 0

\* C8: a run that created its ledger row ends 'completed' exactly when
\* extract() returned True, and 'failed' when extract() returned False or
\* raised.
C8_StatusMatchesExtract ==
    (pc \in {"returned", "raised"} /\ run_id # 0) =>
        /\ disk.runs[run_id].status = "completed" <=>
                (pc = "returned" /\ success)
        /\ (pc = "raised" \/ ~success) => disk.runs[run_id].status = "failed"

\* extract() returned True and the run's row is 'completed'.
C8_Witness ==
    /\ pc = "returned"
    /\ HasRun
    /\ success
    /\ disk.runs[run_id].status = "completed"
    /\ disk.runs[run_id].records_skipped > 0

IsKnown(name) == name \in COLLECTORS

\* The known names among the first n requested ones, in request order.
KnownUpTo(n) == SelectSeq(SubSeq(collector_names, 1, n), IsKnown)

\* C9: in a batch, each occurrence of a known name in the request is attempted
\* exactly once, in request order, whatever the earlier sources did
\* (acquisition failure, exception): between two sources the attempts are
\* exactly the known names passed so far and each has an entry in results;
\* when the loop ends, that is the whole request. An unknown name adds no
\* attempt and no entry, and the loop goes on.
C9_FailureIsolation ==
    /\ pc = "loop" =>
          /\ pos <= Len(collector_names) + 1
          /\ attempted = KnownUpTo(pos - 1)
          /\ DOMAIN results = Range(attempted)
    /\ pc \notin {"idle", "loop"} =>
          /\ pos <= Len(collector_names)
          /\ attempted = KnownUpTo(pos)
          /\ DOMAIN results =
                Range(SubSeq(attempted, 1, Len(attempted) - 1))

\* End of a batch over all four sources: the first raised in extract(), the
\* second failed to acquire its snapshot, the third completed.
C9_Witness ==
    /\ pc = "loop"
    /\ pos > Len(collector_names)
    /\ attempted = AllCollectors
    /\ \E n \in DOMAIN attempted : \E m \in DOMAIN attempted :
          \E k \in DOMAIN attempted :
            /\ n < m /\ m < k
            /\ "error" \in DOMAIN results[attempted[n]]
            /\ "added" \in DOMAIN results[attempted[m]]
            /\ ~results[attempted[m]].success
            /\ results[attempted[k]].success

\* End of a batch whose request held an unknown name between two known ones.
C9_WitnessUnknown ==
    /\ pc = "loop"
    /\ pos > Len(collector_names)
    /\ \E n \in DOMAIN collector_names : ~IsKnown(collector_names[n])
    /\ Len(attempted) = 2
    /\ results[attempted[2]].success

\* The ledger rows this batch created that are 'running'.
BatchRunning(db) ==
    {n \in DOMAIN db.runs : n > batch_base /\ db.runs[n].status = "running"}

\* C10: at most one ledger row created by the batch is 'running' at any time,
\* it is the row of the collector that is executing, and whenever the loop is
\* between sources or a source is about to acquire its snapshot, none is.
C10_Sequential ==
    pc # "idle" =>
        \A db \in {unified_db, disk} :
            /\ Cardinality(BatchRunning(db)) <= 1
            /\ BatchRunning(db) \subseteq {run_id}
            /\ pc \in {"loop", "copy"} => BatchRunning(db) = {}

\* The second source of a batch is about to acquire its snapshot; the first
\* source's row is terminal.
C10_Witness ==
    /\ pc = "copy"
    /\ Len(attempted) >= 2
    /\ Len(disk.runs) > batch_base
    /\ Terminal(disk.runs[Len(disk.runs)])

\* A second source of the batch is extracting while the first one's row is
\* terminal.
C10_WitnessSecond ==
    /\ pc = "extract"
    /\ run_id > batch_base + 1
    /\ BatchRunning(disk) = {run_id}

\* C11: whenever extract() runs, the local snapshot file it reads holds what
\* copy_source_db copied from the source in this same run() invocation; and
\* the copy never leaves an earlier local snapshot in place of the new one.
C11_FreshSnapshot ==
    pc = "extract" =>
        /\ acquired # <<>>
        /\ source_db[collector.name] = acquired

\* extract() runs for a source whose local file held a different snapshot,
\* left by an earlier run, when this run() began.
C11_Witness ==
    /\ pc = "extract"
    /\ \E n \in DOMAIN run_snapshot :
          /\ n < run_id
          /\ disk.runs[n].source = collector.name
          /\ run_snapshot[n] # <<>>
          /\ run_snapshot[n] # source_db[collector.name]

\* Ledger row i is a failed run and row j > i a completed run of the same
\* source over the same snapshot, with only runs over that snapshot between
\* them for that source.
RetryOf(i, j) ==
    /\ i < j
    /\ disk.runs[i].source = disk.runs[j].source
    /\ disk.runs[i].status = "failed"
    /\ disk.runs[j].status = "completed"
    /\ \A k \in i..j :
          disk.runs[k].source = disk.runs[i].source =>
              run_snapshot[k] = run_snapshot[i]

\* C12: when a failed run is followed by a completed run of the same source
\* over the same snapshot, then on return of the completed run each table of
\* that source holds exactly the rows, in the same order and without
\* duplicates, that one uninterrupted run over that snapshot gives when it
\* starts from the store the failed run started from.
C12_RetryEqualsSingleRun ==
    \A i, j \in DOMAIN disk.runs :
        (RetryOf(i, j) /\ j = Len(disk.runs)) =>
            \A t \in Range(SubPasses(disk.runs[i].source)) :
                disk.tables[t] =
                    SingleRun(run_entry[i], disk.runs[i].source,
                              run_snapshot[i][1])[t]

\* The failed run had stored records, and the retry skipped those and added
\* the rest.
C12_Witness ==
    \E i, j \in DOMAIN disk.runs :
        /\ RetryOf(i, j)
        /\ j = Len(disk.runs)
        /\ disk.runs[i].records_added > 0
        /\ disk.runs[j].records_added > 0
        /\ disk.runs[j].records_skipped >= disk.runs[i].records_added

\* How many rows the tables listed in `names` (from index n on) have gained
\* in `db` since the current run began.
RECURSIVE RowsGained(_, _, _)
RowsGained(db, names, n) ==
    IF n > Len(names) THEN 0
    ELSE Len(db.tables[names[n]]) - Len(run_entry[run_id][names[n]])
         + RowsGained(db, names, n + 1)

\* C13: when a sub-pass raised and run() has re-raised, the run is 'failed'
\* and nothing was rolled back: every table still begins with the rows it
\* held when the run began, every record the run inserted (in the earlier
\* sub-passes and in the one that raised) is committed, and the store holds
\* records_added more rows than at the start of the run.
C13_NoRollback ==
    pc = "raised" =>
        /\ disk.runs[run_id].status = "failed"
        /\ disk.tables = unified_db.tables
        /\ \A t \in Tables : IsPrefix(run_entry[run_id][t], disk.tables[t])
        /\ RowsGained(disk, SubPasses(collector.name), 1)
                = collector.records_added

\* A sub-pass after the first raised; the first sub-pass had stored records.
SubPassFailedAfterCommit(name) ==
    /\ pc = "raised"
    /\ collector.name = name
    /\ subpass > 1
    /\ RowsGained(disk, <<SubPasses(name)[1]>>, 1) > 0

C13_Witness == SubPassFailedAfterCommit("knowledgeC")

C13_WitnessMessages == SubPassFailedAfterCommit("messages")

C13_WitnessPodcasts == SubPassFailedAfterCommit("podcasts")

\* The process is interrupted in this step, in the middle of a run.
Interrupted ==
    /\ pc \in {"extract", "complete", "except"}
    /\ pc' = "idle"

\* C14: when the process is interrupted in the middle of a run, every record
\* whose INSERT had been executed is in the store afterwards: the tables after
\* the interruption are the tables the connection saw before it.
C14_InsertsDurable ==
    [][Interrupted => unified_db'.tables = unified_db.tables]_vars

\* The step taken from a state where the next INSERT collides: nothing is
\* raised, records_skipped grows by one, nothing else is counted or stored,
\* and the loop is at the next source row.
C15_SkipStep ==
    C2_Collision =>
        /\ pc' = "extract"
        /\ cursor' = cursor + 1
        /\ subpass' = subpass
        /\ collector' = [collector EXCEPT !.records_skipped = @ + 1]
        /\ unified_db' = unified_db

\* C15: a uniqueness violation on insert only increments records_skipped and
\* the sub-pass goes on with the next source row; a run that skipped records
\* and returned from extract() is 'completed', with its skips in the ledger.
C15_DuplicateIsSkip ==
    /\ [][C15_SkipStep]_vars
    /\ []((pc = "returned" /\ HasRun) =>
            /\ disk.runs[run_id].status = "completed"
            /\ disk.runs[run_id].records_skipped = collector.records_skipped)

\* A run all of whose candidates were duplicates has returned: it is
\* 'completed' with nothing added.
C15_Witness ==
    /\ pc = "returned"
    /\ HasRun
    /\ disk.runs[run_id].status = "completed"
    /\ disk.runs[run_id].records_added = 0
    /\ disk.runs[run_id].records_skipped > 1
    /\ \E n \in DOMAIN disk.runs :
          /\ n < run_id
          /\ disk.runs[n].source = collector.name
          /\ run_snapshot[n] = run_snapshot[run_id]

\* A conversion was called with an integer argument <= 0.
NonPositiveArg == arg.k = "int" /\ arg.hi <= 0 /\ arg.i <= 0

\* C16: each of the three conversions returns None for a None argument and
\* for every integer argument <= 0, 0 included.
C16_NonPositiveIsAbsent ==
    (fn # "" /\ (arg = None \/ NonPositiveArg)) => ret = None

\* chrome_to_unix was called with 0.
C16_Witness ==
    /\ fn = "chrome_to_unix"
    /\ arg = I(0)
    /\ ret = None

\* C17 as stated: apple_to_unix maps the input 0 to 978307200.
C17_ZeroMapsToOffset ==
    (fn = "apple_to_unix" /\ arg = I(0)) => ret = I(978307200)

\* C17, amended: apple_to_unix adds 978307200 to a positive input, so that
\* 978307200 is the Unix time of the zero point of Apple's epoch; the input 0
\* itself is returned as None, and the first input converted, 1, maps to
\* 978307201.
C17_OffsetAdded ==
    fn = "apple_to_unix" =>
        /\ arg = I(0) => ret = None
        /\ \A n \in 1..MaxSmall : arg = I(n) => ret = I(978307200 + n)

\* apple_to_unix was called with 1.
C17_Witness ==
    /\ fn = "apple_to_unix"
    /\ arg = I(1)
    /\ ret = I(978307201)

\* C18: for a positive integer input apple_to_unix(t) = t + 978307200 and
\* apple_nano_to_unix(n) = (n div 10^9) + 978307200; chrome_to_unix(m) is
\* m / 10^6 - 11644473600 truncated toward zero (checked where the model
\* computes it).
C18_ExactSeconds ==
    (arg.k = "int" /\ ~NonPositiveArg) =>
        /\ fn = "apple_to_unix" =>
                ret = BigInt(arg.hi + (arg.i \div 1000000000),
                             (arg.i % 1000000000) + 978307200)
        /\ fn = "apple_nano_to_unix" =>
                ret = BigInt(0, arg.hi + (arg.i \div 1000000000) + 978307200)
        /\ (fn = "chrome_to_unix" /\ ret # Unmodelled) =>
                ret = BigInt((arg.hi - 11644473) \div 1000000,
                             ((arg.hi - 11644473) % 1000000) * 1000
                                + (arg.i \div 1000000) - 600)

\* The tables whose rows carry a duration computed from their two ends.
DurationTables == {"app_usage", "bluetooth_connections", "display_state"}

\* The rows of the duration tables in the connection's view and on disk.
DurationRows ==
    UNION {Range(db.tables[t]) : db \in {unified_db, disk}, t \in DurationTables}

\* C19: every stored app_usage, bluetooth_connections and display_state row
\* has duration_seconds = end_time - start_time when its end_time is present,
\* and has no duration_seconds exactly when it has no end_time.
C19_DurationIsDifference ==
    \A row \in DurationRows :
        /\ row.end_time # None =>
              /\ row.duration_seconds.k = "int"
              /\ row.duration_seconds.hi = 0
              /\ row.start_time.i + row.duration_seconds.i = row.end_time.i
        /\ row.duration_seconds = None <=> row.end_time = None

\* Committed: an app_usage row with no end and no duration, next to one from a
\* later run whose ends are two seconds apart.
C19_Witness ==
    /\ \E row \in Range(disk.tables["app_usage"]) :
          /\ row.end_time = None
          /\ row.duration_seconds = None
    /\ \E row \in Range(disk.tables["app_usage"]) :
          /\ row.end_time # None
          /\ row.duration_seconds = I(2)

\* Committed: a bluetooth_connections row whose ends are four seconds apart.
C19_WitnessBluetooth ==
    \E row \in Range(disk.tables["bluetooth_connections"]) :
        /\ row.end_time # None
        /\ row.duration_seconds = I(4)

\* C20: no stored duration_seconds is negative, in any of the tables that
\* carry one: a source row whose end precedes its start is not persisted with
\* its negative difference.
C20_NoNegativeDuration ==
    \A row \in DurationRows :
        row.duration_seconds.k = "int" =>
            /\ row.duration_seconds.hi >= 0
            /\ row.duration_seconds.i >= 0

\* The sub-passes that drop a row on its primary timestamp.
TimestampTables ==
    {"app_usage", "bluetooth_connections", "notifications", "intents",
     "display_state", "web_visits", "messages"}

\* The source column a sub-pass converts into the row's primary timestamp.
PrimaryTimestamp(table, row) ==
    CASE table = "web_visits" -> row.visit_time
      [] table = "messages" -> row.date
      [] OTHER -> row.start_date

\* Null or non-positive in the source.
AbsentInSource(v) == v = None \/ (v.k = "int" /\ v.hi <= 0 /\ v.i <= 0)

\* The n-th source row of the running sub-pass has no usable primary timestamp.
Unusable(n) ==
    /\ pc = "extract"
    /\ source_db[collector.name] # <<>>
    /\ CurrentTable \in TimestampTables
    /\ n \in 1..Len(SourceRows(collector.name, CurrentTable))
    /\ AbsentInSource(PrimaryTimestamp(CurrentTable,
                          SourceRows(collector.name, CurrentTable)[n]))

\* C21: the loop iteration over a source row whose primary timestamp is null
\* or non-positive inserts nothing and leaves records_added and
\* records_skipped as they were, in each of the seven sub-passes that have
\* a primary timestamp.
C21_DroppedSilently ==
    [][Unusable(cursor) =>
            /\ unified_db' = unified_db
            /\ disk' = disk
            /\ collector' = collector]_vars

\* The loop of sub-pass `table` has just passed a row without usable primary
\* timestamp.
DroppedIn(table) ==
    /\ pc = "extract"
    /\ CurrentTable = table
    /\ cursor > 1
    /\ Unusable(cursor - 1)

\* The app-usage loop passed its first row, which has start date 0: nothing
\* is stored and both counters are 0.
C21_Witness ==
    /\ DroppedIn("app_usage")
    /\ cursor = 2
    /\ unified_db.tables["app_usage"] = run_entry[run_id]["app_usage"]
    /\ collector.records_added = 0
    /\ collector.records_skipped = 0

C21_WitnessBluetooth == DroppedIn("bluetooth_connections")

C21_WitnessNotifications == DroppedIn("notifications")

C21_WitnessIntents == DroppedIn("intents")

C21_WitnessDisplayState == DroppedIn("display_state")

C21_WitnessWebVisits == DroppedIn("web_visits")

C21_WitnessMessages == DroppedIn("messages")

\* The n-th source row of the notifications sub-pass has a usable timestamp
\* and no source bundle id: its event type, if any, would stand in as the
\* app identifier.
Placeholder(n) ==
    /\ pc = "extract"
    /\ source_db[collector.name] # <<>>
    /\ CurrentTable = "notifications"
    /\ n \in 1..Len(SourceRows(collector.name, CurrentTable))
    /\ ~Unusable(n)
    /\ ~Truthy(SourceRows(collector.name, CurrentTable)[n].bundle_id)

\* C22: the loop iteration over a notification row that has no source bundle
\* id (its event-type token, or nothing, would be the app identifier) stores
\* nothing and leaves records_added and records_skipped as they were.
C22_PlaceholderDropped ==
    [][Placeholder(cursor) =>
            /\ unified_db' = unified_db
            /\ collector' = collector]_vars

\* The n-th source row of the app-usage sub-pass has a usable start and a
\* device id that is absent or has no entry in the device mapping.
Unmapped(n) ==
    /\ pc = "extract"
    /\ source_db[collector.name] # <<>>
    /\ CurrentTable = "app_usage"
    /\ n \in 1..Len(SourceRows(collector.name, CurrentTable))
    /\ ~Unusable(n)
    /\ LET device_id == SourceRows(collector.name, CurrentTable)[n].device_id
       IN  \/ ~Truthy(device_id)
           \/ device_id \notin DOMAIN DeviceMap(collector.name)

\* The key of an app-usage source row: bundle id, converted start, device id.
AppUsageKey(row) ==
    make_hash(<<row.bundle_id, apple_to_unix(row.start_date), row.device_id>>)

\* C23: the loop iteration over an app-usage row whose device id is absent or
\* unmapped reaches the INSERT: the row counts as added or skipped, the store
\* then holds a row under the key built from bundle id, start and device id,
\* and a row this iteration stored has that key, the source's device id and a
\* null device_model.
C23_BestEffortEnrichment ==
    [][Unmapped(cursor) =>
        LET source_row == SourceRows(collector.name, CurrentTable)[cursor]
            before == unified_db.tables["app_usage"]
            after == unified_db'.tables["app_usage"]
        IN  /\ pc' = "extract"
            /\ HasHash(after, AppUsageKey(source_row))
            /\ collector'.records_added + collector'.records_skipped
                  = collector.records_added + collector.records_skipped + 1
            /\ collector'.records_added - collector.records_added
                  = Len(after) - Len(before)
            /\ \A n \in (Len(before) + 1)..Len(after) :
                  /\ after[n].record_hash = AppUsageKey(source_row)
                  /\ after[n].device_id = source_row.device_id
                  /\ after[n].device_model = None]_vars

\* Stored: an app-usage row of a device without mapping entry and one without
\* device id, both with a null device_model, next to an enriched row.
C23_Witness ==
    LET stored == Range(unified_db.tables["app_usage"])
    IN  /\ \E row \in stored :
              row.device_id = T("d2") /\ row.device_model = None
        /\ \E row \in stored :
              row.device_id = None /\ row.device_model = None
        /\ \E row \in stored :
              row.device_id = T("d1") /\ row.device_model = T("MacBookPro")

NullForEmpty(a, b) ==
    /\ Len(a) = Len(b)
    /\ \A n \in DOMAIN a :
          a[n] # b[n] => {a[n], b[n]} = {None, T("")}

\* C25: two calls of make_hash whose arguments differ only in that a position
\* holds None in one and the empty string in the other return the same hash.
C25_NullIsEmpty ==
    \A i, j \in DOMAIN hash_log :
        NullForEmpty(hash_log[i].args, hash_log[j].args)
            => hash_log[i].out = hash_log[j].out

\* make_hash was called with a None and with an empty string in the same
\* position; with a text in that position it returns another hash.
C25_Witness ==
    /\ Len(hash_log) = 2
    /\ hash_log[1].args # hash_log[2].args
    /\ NullForEmpty(hash_log[1].args, hash_log[2].args)
    /\ hash_log[1].out = hash_log[2].out
    /\ make_hash(<<T("app"), T("d1"), I(5)>>) # hash_log[1].out

\* The ledger rows of a source that are 'completed', as the connection sees
\* them.
CompletedRuns(name) ==
    {n \in DOMAIN unified_db.runs :
        /\ unified_db.runs[n].source = name
        /\ unified_db.runs[n].status = "completed"}

\* C26: get_last_extraction_time of a source returns the greatest
\* completed_at among that source's 'completed' ledger rows, whatever failed
\* and running rows and rows of other sources the ledger holds, and None when
\* the source has no 'completed' row.
C26_LastCompleted ==
    fn = "get_last_extraction_time" =>
        LET completed == CompletedRuns(arg.s)
        IN  IF completed = {} THEN ret = None
            ELSE /\ \E n \in completed : ret = unified_db.runs[n].completed_at
                 /\ \A n \in completed :
                        unified_db.runs[n].completed_at.i <= ret.i

\* Asked for a source whose two runs completed at different times, with the
\* later one returned.
C26_Witness ==
    /\ fn = "get_last_extraction_time"
    /\ Cardinality(CompletedRuns(arg.s)) = 2
    /\ \E n \in CompletedRuns(arg.s) :
          unified_db.runs[n].completed_at.i < ret.i

\* Asked for a source whose only finished run failed, while another source
\* has a completed run: None.
C26_WitnessNone ==
    /\ fn = "get_last_extraction_time"
    /\ ret = None
    /\ \E n \in DOMAIN unified_db.runs :
          /\ unified_db.runs[n].source = arg.s
          /\ unified_db.runs[n].status = "failed"
    /\ \E n \in DOMAIN unified_db.runs :
          /\ unified_db.runs[n].source # arg.s
          /\ unified_db.runs[n].status = "completed"

\* Asked for a source that has a failed run after a completed one: the
\* completed run's time.
C26_WitnessFailedLater ==
    /\ fn = "get_last_extraction_time"
    /\ ret # None
    /\ \E n \in DOMAIN unified_db.runs :
          /\ unified_db.runs[n].source = arg.s
          /\ unified_db.runs[n].status = "failed"
          /\ unified_db.runs[n].completed_at.i > ret.i

\* What one step may do to the ledger: rows are kept in place with their id,
\* source and started_at; a terminal row is kept as it is; a running row is
\* kept or becomes terminal; a new row is 'running', without completed_at
\* and with both counts 0.
LedgerStep(before, after) ==
    /\ Len(after) >= Len(before)
    /\ \A n \in DOMAIN before :
          /\ after[n].id = before[n].id
          /\ after[n].source = before[n].source
          /\ after[n].started_at = before[n].started_at
          /\ Terminal(before[n]) => after[n] = before[n]
          /\ after[n] # before[n] => Terminal(after[n])
    /\ \A n \in DOMAIN after \ DOMAIN before :
          /\ after[n].status = "running"
          /\ after[n].completed_at = None
          /\ after[n].records_added = 0
          /\ after[n].records_skipped = 0

\* C27: every ledger row is created 'running', is updated at most once, to
\* 'completed' or 'failed', and is never deleted; a terminal row keeps its
\* status, counts and completed_at under every later step of every run; and
\* whenever no run() is between its ledger start and its completion update,
\* every row has had its one update.
C27_LedgerRowLifecycle ==
    /\ [][/\ LedgerStep(unified_db.runs, unified_db'.runs)
          /\ LedgerStep(disk.runs, disk'.runs)]_vars
    /\ [](pc \notin {"extract", "complete", "except"} =>
              \A n \in DOMAIN disk.runs : Terminal(disk.runs[n]))

\* Two runs of one source have finished; the first one's row is as it was
\* when the second run() was entered.
C27_Witness ==
    /\ pc \in {"returned", "raised"}
    /\ Len(disk.runs) = 2
    /\ Len(entry_db.runs) = 1
    /\ disk.runs[1].source = disk.runs[2].source
    /\ Terminal(disk.runs[2])
    /\ Terminal(entry_db.runs[1])
    /\ disk.runs[1] = entry_db.runs[1]
    /\ disk.runs[2].completed_at # disk.runs[1].completed_at

\* The instant t lies in one of the closed intervals.
CoversInstant(intervals, t) ==
    \E n \in DOMAIN intervals : intervals[n][1] <= t /\ t <= intervals[n][2]

\* The second from t to t + 1 lies in one of the intervals.
CoversSecond(intervals, t) ==
    \E n \in DOMAIN intervals :
        intervals[n][1] <= t /\ t + 1 <= intervals[n][2]

RECURSIVE TotalDuration(_)
\* The sum of end - start over the intervals.
TotalDuration(intervals) ==
    IF intervals = <<>> THEN 0
    ELSE (intervals[1][2] - intervals[1][1]) + TotalDuration(Tail(intervals))

\* C28: merge_intervals of a device's valid intervals returns intervals in
\* order of start, each with end > start, any two of them apart (the next
\* starts after the one before ends: overlapping and touching inputs are
\* joined, so no smaller set has the same union), covering exactly the
\* instants and seconds the inputs cover; [(10,20),(15,25),(30,40)] gives
\* [(10,25),(30,40)], 25 seconds in all.
C28_MergeMinimalCover ==
    fn = "merge_intervals" =>
        /\ \A n \in DOMAIN ret : ret[n][1] < ret[n][2]
        /\ \A n \in 1..(Len(ret) - 1) : ret[n][2] < ret[n + 1][1]
        /\ \A t \in 10..40 :
              /\ CoversInstant(ret, t) <=> CoversInstant(arg, t)
              /\ CoversSecond(ret, t) <=> CoversSecond(arg, t)
        /\ arg = << <<10, 20>>, <<15, 25>>, <<30, 40>> >> =>
              /\ ret = << <<10, 25>>, <<30, 40>> >>
              /\ TotalDuration(ret) = 25

\* merge_intervals returned for [(10,20),(15,25),(30,40)].
C28_Witness ==
    /\ fn = "merge_intervals"
    /\ arg = << <<10, 20>>, <<15, 25>>, <<30, 40>> >>
    /\ ret = << <<10, 25>>, <<30, 40>> >>

\* Touching intervals were joined, and an interval inside an earlier one left
\* the earlier end in place.
C28_WitnessTouching ==
    /\ fn = "merge_intervals"
    /\ arg = << <<10, 30>>, <<15, 20>>, <<30, 40>> >>
    /\ ret = << <<10, 40>> >>

\* The emitted tuples of one device.
EmittedFor(device) == SelectSeq(ret, LAMBDA tuple : tuple.device = device)

\* C29: for every device, the emitted per-day total_time values add up to the
\* total duration of the device's merged intervals.
C29_DaySplitConserves ==
    fn = "get_bluetooth_data" =>
        \A n \in DOMAIN DeviceNames :
            SumOf(EmittedFor(DeviceNames[n]), "total_time") =
                TotalDuration(merge_intervals(
                    device_intervals(arg.rows, T(DeviceNames[n]))))

\* C30: every emitted (day, device) tuple has total_time <= 86,400, so a day's
\* total is at most 86,400 times the number of devices active that day.
C30_DayAtMost24h ==
    fn = "get_bluetooth_data" =>
        \A n \in DOMAIN ret : ret[n].total_time <= 86400

\* The instant at which the local day `day` begins in the zone.
DayBegins(zone, day) ==
    IF DayStart(day) - zone.before < zone.transition
    THEN DayStart(day) - zone.before
    ELSE DayStart(day) - zone.after

\* The seconds of the interval that lie in the local day `day`.
SecondsInDay(zone, interval, day) ==
    LET from == Max(interval[1], DayBegins(zone, day))
        to == IF interval[2] <= DayBegins(zone, day + 1)
              THEN interval[2] ELSE DayBegins(zone, day + 1)
    IN  IF to > from THEN to - from ELSE 0

RECURSIVE SecondsOfDay(_, _, _)
SecondsOfDay(zone, intervals, day) ==
    IF intervals = <<>> THEN 0
    ELSE SecondsInDay(zone, intervals[1], day)
            + SecondsOfDay(zone, Tail(intervals), day)

\* The merged intervals of a device in the table get_bluetooth_data read.
MergedOf(device) == merge_intervals(device_intervals(arg.rows, T(device)))

\* The merged intervals of the device that start on the local day `day`.
StartingOn(device, day) ==
    SelectSeq(MergedOf(device),
              LAMBDA interval : date(fromtimestamp(arg.zone, interval[1])) = day)

\* C31: every emitted tuple gives its day exactly the seconds of the device's
\* merged intervals that lie in that local day, and counts as connections
\* the merged intervals that start on that day; per device the connection
\* counts add up to the number of merged intervals.
C31_DayAttribution ==
    fn = "get_bluetooth_data" =>
        /\ \A n \in DOMAIN ret :
              /\ ret[n].total_time =
                    SecondsOfDay(arg.zone, MergedOf(ret[n].device), ret[n].date)
              /\ ret[n].connections =
                    Len(StartingOn(ret[n].device, ret[n].date))
        /\ \A n \in DOMAIN DeviceNames :
              SumOf(EmittedFor(DeviceNames[n]), "connections") =
                  Len(MergedOf(DeviceNames[n]))

\* What the loop of the running sub-pass makes of its next source row.
NextCandidate ==
    ProcessRow(CurrentTable, SourceRows(collector.name, CurrentTable)[cursor],
               DeviceMap(collector.name))

\* C32: every step that increments records_skipped is the INSERT of a
\* candidate whose record_hash the target table already holds.
C32_SkipMeansDuplicate ==
    [][collector'.records_skipped > collector.records_skipped =>
            /\ pc = "extract"
            /\ NextCandidate.op = "insert"
            /\ HasHash(unified_db.tables[NextCandidate.table],
                       NextCandidate.row.record_hash)]_vars

\* How many rows the tables listed in `names` (from index n on) hold in
\* `after` beyond those they hold in `before`.
RECURSIVE RowsBetween(_, _, _, _)
RowsBetween(before, after, names, n) ==
    IF n > Len(names) THEN 0
    ELSE Len(after[names[n]]) - Len(before[names[n]])
         + RowsBetween(before, after, names, n + 1)

\* The record tables as they were when run n of the ledger ended: the tables
\* the next run began with, or the present ones for the last run.
TablesAfterRun(n) ==
    IF n < Len(disk.runs) THEN run_entry[n + 1] ELSE disk.tables

\* How many of rows[n..] a sub-pass over `table` tries to insert.
RECURSIVE CandidateCount(_, _, _, _)
CandidateCount(table, rows, device_map, n) ==
    IF n > Len(rows) THEN 0
    ELSE (IF ProcessRow(table, rows[n], device_map).op = "insert"
          THEN 1 ELSE 0)
         + CandidateCount(table, rows, device_map, n + 1)

\* How many rows the sub-passes names[n..] try to insert from one snapshot.
RECURSIVE CandidatesOfRun(_, _, _)
CandidatesOfRun(snapshot, names, n) ==
    IF n > Len(names) THEN 0
    ELSE CandidateCount(names[n], snapshot.tables[names[n]],
                        snapshot.devices, 1)
         + CandidatesOfRun(snapshot, names, n + 1)

\* The ledger row n counts run n alone.
CountsOwnRun(n) ==
    LET row == disk.runs[n]
        names == SubPasses(row.source)
    IN  /\ row.records_added =
              RowsBetween(run_entry[n], TablesAfterRun(n), names, 1)
        /\ row.status = "completed" =>
              row.records_added + row.records_skipped =
                  CandidatesOfRun(run_snapshot[n][1], names, 1)

\* C33: the records_added and records_skipped of every finished ledger row
\* are the numbers of rows inserted and skipped during that run alone, also
\* when run() is called again on the same collector instance.
C33_CountsPerRun ==
    \A n \in DOMAIN disk.runs :
        disk.runs[n].status \in {"completed", "failed"} => CountsOwnRun(n)


\* The exception handler of run() ends in this step.
HandlerEnds ==
    /\ pc = "except"
    /\ pc' = "raised"

\* C34: when a sub-pass raised and run() has re-raised, the ledger row of the
\* run is 'failed' and its records_added is the number of rows of that run
\* in the committed store; the handler's one commit makes durable both the
\* ledger row and every row the connection held, those the failing sub-pass
\* had inserted before the exception included.
C34_FailedCountIsDurable ==
    /\ [](pc = "raised" =>
            /\ disk.runs[run_id].status = "failed"
            /\ disk.runs[run_id].records_added =
                  RowsBetween(run_entry[run_id], disk.tables,
                              SubPasses(collector.name), 1))
    /\ [][HandlerEnds =>
            /\ disk'.tables = unified_db.tables
            /\ disk'.runs[run_id].status = "failed"
            /\ disk'.runs[run_id].records_added = collector.records_added]_vars

\* run() has re-raised, and the sub-pass that raised had inserted rows
\* before the exception.
C34_Witness ==
    /\ pc = "raised"
    /\ cursor > 1
    /\ Len(disk.tables[CurrentTable]) > Len(run_entry[run_id][CurrentTable])


-----------------------------------------------------------------------------
(* extract.py: the summary main() prints from the results of the batch *)

\* result.get(key, default)
ResultGet(result, key, default) ==
    IF key \in DOMAIN result THEN result[key] ELSE default

\* added = result.get('added', 0)
ReportedAdded(name) == ResultGet(results[name], "added", 0)

\* total_added += added, for name, result in results.items()
RECURSIVE total_added(_)
total_added(names) ==
    IF names = {} THEN 0
    ELSE LET name == CHOOSE n \in names : TRUE
         IN  ReportedAdded(name) + total_added(names \ {name})

\* run_extraction has left its loop: `results` is what it returns.
BatchEnded ==
    /\ pc = "loop"
    /\ pos > Len(collector_names)

\* How many rows the tables of a source have gained since the batch began
\* (only that source's collector writes them).
InsertedInBatch(name) ==
    IF \E n \in DOMAIN disk.runs : n > batch_base
    THEN RowsBetween(run_entry[batch_base + 1], disk.tables,
                     SubPasses(name), 1)
    ELSE 0

RECURSIVE InsertedInBatchBy(_)
InsertedInBatchBy(names) ==
    IF names = {} THEN 0
    ELSE LET name == CHOOSE n \in names : TRUE
         IN  InsertedInBatch(name) + InsertedInBatchBy(names \ {name})

\* C35: at the end of a batch the 'added' figure reported for every source
\* is the number of rows inserted for that source during the batch, and the
\* batch total is the number of rows the batch inserted, also for a source
\* whose collector raised after inserting some records.
C35_SummaryFaithful ==
    BatchEnded =>
        /\ \A name \in DOMAIN results :
              ReportedAdded(name) = InsertedInBatch(name)
        /\ total_added(DOMAIN results) = InsertedInBatchBy(DOMAIN results)

\* The same, for the sources whose collector raised only.
C35_RaisedSourceFaithful ==
    BatchEnded =>
        \A name \in DOMAIN results :
            "error" \in DOMAIN results[name] =>
                ReportedAdded(name) = InsertedInBatch(name)


\* copy_source_db returns None in this step: the snapshot was not acquired.
AcquisitionFails ==
    /\ pc = "copy"
    /\ pc' = "returned"

\* C36: a failed snapshot acquisition leaves the local working copy of the
\* source as it was: the file that existed before is still there, unchanged.
C36_FailedCopyKeepsLocal ==
    [][AcquisitionFails => source_db' = source_db]_vars


-----------------------------------------------------------------------------
(* collectors/knowledgec.py: a sub-pass over two source rows of one kind *)

\* The ZOBJECT rows of each stream a sub-pass reads: two start dates, two
\* end dates, two addresses, classes, verbs and backlit values.
StreamRows(table) ==
    CASE table = "bluetooth_connections" ->
            {BluetoothRow(start, end, address) :
                start \in {I(5), I(6)}, end \in {I(9), I(10)},
                address \in {T("aa"), T("bb")}}
      [] table = "intents" ->
            {[IntentRow(start, class, T("app")) EXCEPT !.intent_verb = verb] :
                start \in {I(5), I(6)}, class \in {T("Play"), T("Stop")},
                verb \in {T("play"), T("pause")}}
      [] table = "display_state" ->
            {DisplayRow(backlit, start, end) :
                backlit \in {I(0), I(1)}, start \in {I(5), I(6)},
                end \in {I(9), I(10)}}

\* Two rows of one stream, as the query returns them (ORDER BY ZSTARTDATE).
InQueryOrderPairs ==
    {pair \in UNION {{[table |-> table, rows |-> <<first, second>>] :
                        first \in StreamRows(table),
                        second \in StreamRows(table)} :
                     table \in {"bluetooth_connections", "intents",
                                "display_state"}} :
        pair.rows[1].start_date.i <= pair.rows[2].start_date.i}

InitPair ==
    /\ InitPipeline
    /\ fn = ""
    /\ arg \in InQueryOrderPairs
    /\ ret = None
    /\ hash_log = <<>>

\* The sub-pass of the stream runs over the two rows on an empty store; the
\* result is the table it wrote.
CallExtractPair ==
    /\ fn = ""
    /\ fn' = "extract"
    /\ ret' = SingleRun(EmptyDb.tables, "knowledgeC",
                        Snapshot("knowledgeC", arg.table :> arg.rows,
                                 NoDevices))[arg.table]
    /\ UNCHANGED <<arg, hash_log, pipeline_vars>>

NextPair == CallExtractPair

SpecPair == InitPair /\ [][NextPair]_vars

\* The columns a source row is stored with, the dedup key aside.
StoredColumns(table, row) ==
    LET stored == ProcessRow(table, row, NoDevices).row
    IN  [column \in DOMAIN stored \ {"record_hash"} |-> stored[column]]

\* Both rows pass the drop rules and they differ in a stored column.
DistinctRecords(pair) ==
    /\ \A n \in 1..2 :
          ProcessRow(pair.table, pair.rows[n], NoDevices).op = "insert"
    /\ StoredColumns(pair.table, pair.rows[1])
          # StoredColumns(pair.table, pair.rows[2])

\* C37: two source rows of one kind in a snapshot that both pass the drop
\* rules and differ in at least one stored column are stored as two rows.
C37_NoDistinctRecordLost ==
    (fn = "extract" /\ DistinctRecords(arg)) => Len(ret) = 2


-----------------------------------------------------------------------------
(* collectors/base.py: make_hash called on two argument lists *)

\* Field values, with and without the delimiter inside (a URL, a bundle id
\* or an address is any text).
FieldValues == {T("a"), T("b"), T("c"), T("a|b"), T("b|c")}

\* The argument lists *args, of one or two fields.
FieldTuples == UNION {[1..n -> FieldValues] : n \in {1, 2}}

InitJoin ==
    /\ InitPipeline
    /\ fn = ""
    /\ arg \in FieldTuples \X FieldTuples
    /\ ret = None
    /\ hash_log = <<>>

\* make_hash is called on each of the two argument lists.
CallMakeHashTwice ==
    /\ fn = ""
    /\ fn' = "make_hash"
    /\ ret' = <<make_hash(arg[1]), make_hash(arg[2])>>
    /\ UNCHANGED <<arg, hash_log, pipeline_vars>>

NextJoin == CallMakeHashTwice

SpecJoin == InitJoin /\ [][NextJoin]_vars

\* C38: two argument lists whose rendered fields differ in some position, or
\* whose numbers of fields differ, are joined into different strings, so
\* that (digest collisions aside) their hashes differ, also when a field
\* holds a '|'.
C38_JoinIdentifiesTuple ==
    (fn = "make_hash" /\ HashParts(arg[1]) # HashParts(arg[2])) =>
        /\ JoinBar(HashParts(arg[1])) # JoinBar(HashParts(arg[2]))
        /\ ret[1] # ret[2]

\* The same for argument lists of equal length none of whose fields holds
\* the delimiter.
DelimiterFree(args) ==
    \A n \in DOMAIN args : Str(args[n]) \in {"a", "b", "c"}

C38_JoinIdentifiesPlainTuple ==
    (/\ fn = "make_hash"
     /\ HashParts(arg[1]) # HashParts(arg[2])
     /\ Len(arg[1]) = Len(arg[2])
     /\ DelimiterFree(arg[1])
     /\ DelimiterFree(arg[2])) =>
        ret[1] # ret[2]


\* How many of rows[n..] a sub-pass over `table` drops (`continue`).
RECURSIVE DroppedCount(_, _, _, _)
DroppedCount(table, rows, device_map, n) ==
    IF n > Len(rows) THEN 0
    ELSE (IF ProcessRow(table, rows[n], device_map).op = "continue"
          THEN 1 ELSE 0)
         + DroppedCount(table, rows, device_map, n + 1)

\* The rows the running extract() has read in its sub-pass k: all of them
\* for a sub-pass that has completed, those before the cursor for the
\* current one.
RowsRead(k) ==
    LET rows == SourceRows(collector.name, SubPasses(collector.name)[k])
    IN  IF k < subpass THEN rows
        ELSE IF k = subpass THEN SubSeq(rows, 1, cursor - 1)
        ELSE <<>>

\* Rows read and rows dropped by the sub-passes k.. of the running extract().
RECURSIVE ReadFrom(_)
ReadFrom(k) ==
    IF k > Len(SubPasses(collector.name)) THEN 0
    ELSE Len(RowsRead(k)) + ReadFrom(k + 1)

RECURSIVE DroppedFrom(_)
DroppedFrom(k) ==
    IF k > Len(SubPasses(collector.name)) THEN 0
    ELSE DroppedCount(SubPasses(collector.name)[k], RowsRead(k),
                      DeviceMap(collector.name), 1)
         + DroppedFrom(k + 1)

\* C39: while extract() runs, and so at the end of every sub-pass, the rows
\* read so far are those inserted, those skipped and those dropped by the
\* edge-case rules; and in the ledger row of a completed run records_added
\* + records_skipped is the number of rows of the run's snapshot that pass
\* the drop rules.
C39_RowConservation ==
    /\ pc \in {"extract", "complete"} =>
          ReadFrom(1) = collector.records_added + collector.records_skipped
                            + DroppedFrom(1)
    /\ \A n \in DOMAIN disk.runs :
          disk.runs[n].status = "completed" =>
              disk.runs[n].records_added + disk.runs[n].records_skipped =
                  CandidatesOfRun(run_snapshot[n][1],
                                  SubPasses(disk.runs[n].source), 1)

\* A run has completed in which rows were inserted, skipped and dropped.
C39_Witness ==
    /\ pc = "returned"
    /\ success
    /\ disk.runs[run_id].status = "completed"
    /\ disk.runs[run_id].records_added > 0
    /\ disk.runs[run_id].records_skipped > 0
    /\ DroppedFrom(1) > 0


====
